---- MODULE Spec2Model ----
(***************************************************************************)
(* Load-gating, cache-invalidation and merge-reconciliation core of the    *)
(* studio application (src/src/controllers, src/src/state.rs).             *)
(*                                                                         *)
(* The application is a single-threaded message-dispatch loop: every       *)
(* message is handled by App::update, which runs the controllers in a      *)
(* fixed order and finishes with post_event_tasks.  Asynchronous work      *)
(* (fetches, command execution, Task::done messages) is kept in the        *)
(* variables executing, fetching and inbox and re-enters App::update as    *)
(* an ordinary message, in any order.                                      *)
(***************************************************************************)
EXTENDS Integers, Sequences, FiniteSets, TLC

VARIABLES
    state,      \* AppState (src/src/state.rs)
    db,         \* App.db: Option<Database>, "none" or "open"
    executing,  \* commands running in db_controller::task_execute tasks
    fetching,   \* fetch tasks that have not answered yet
    inbox,      \* messages scheduled with Task::done / Task::perform
    now,        \* Instant::now() in milliseconds
    store,      \* the Data Store (the project's SQLite database)
    issued,     \* per load key: number of fetch tasks started so far
    completed,  \* commands whose ActionDone has been handled, in order
    begun,      \* per load key: successful begins since the key was last released
    last        \* the message handled by the last dispatch and what it did

vars == <<state, db, store, executing, fetching, inbox, now, issued, completed, begun, last>>

-----------------------------------------------------------------------------
(* Bounds of the model *)

MaxCmds == 2        \* commands enqueued in one behaviour
MaxFetches == 3     \* fetch tasks started in one behaviour
MaxCoreCmds == 1    \* the same two bounds for SpecCore,
MaxCoreFetches == 6 \* the two fetches that lead to its first state included
MaxForgeCmds == 2   \* and for SpecForge
MaxForgeFetches == 5
MaxEdits == 1       \* editor changes between two resets of the debounce token
MaxNow == 1600      \* the clock stops advancing here
TickMs == 800       \* granularity of the clock

(* Program constants *)

CORE_THROTTLE_MS == 800
NOVELS_THROTTLE_MS == 800
CHAPTERS_THROTTLE_MS == 800
SCENES_THROTTLE_MS == 800
AUTOSAVE_DELAY_MS == 800
CREATE_SCENE_MIN_MS == 1000

-----------------------------------------------------------------------------
(* Identifiers.  Universe, board and project ids are strings; novel,       *)
(* chapter and scene ids are positive integers compared as the source      *)
(* compares the id strings (a.id.cmp(&b.id)); 0 and "none" stand for       *)
(* Option::None.                                                           *)

Universes == {"uA", "uB"}
Boards == {"b1"}
NoUid == "none"
NoId == 0

NovelIds == {1, 2}
ChapterIds == {1, 2, 3}
SceneIds == {1, 2, 3}
Texts == {1, 2}        \* scene bodies; 0 is the empty text

Min(S) == CHOOSE x \in S : \A y \in S : x <= y

EmptyMap == [x \in {} |-> 0]
MapInsert(m, k, v) == [x \in (DOMAIN m) \cup {k} |-> IF x = k THEN v ELSE m[x]]
MapRemove(m, k) == [x \in (DOMAIN m) \ {k} |-> m[x]]

(* Route (src/src/app.rs) *)
Route(name, uid) == [name |-> name, uid |-> uid]
RouteWorkspaces == Route("Workspaces", NoUid)
RouteOverview == Route("Overview", NoUid)
RouteForge == Route("Forge", NoUid)

(* CoreLoadKey and ForgeLoadKey (src/src/state.rs) *)
LoadKey(kind, uid, id) == [kind |-> kind, uid |-> uid, id |-> id]
KeyUniversesList == LoadKey("UniversesList", NoUid, NoId)
KeyBoardsList == LoadKey("BoardsList", NoUid, NoId)
KeyPmBoard(b) == LoadKey("PmBoard", b, NoId)
KeyCreatures(u) == LoadKey("Creatures", u, NoId)
KeyLocations(u) == LoadKey("Locations", u, NoId)
KeyTimeline(u) == LoadKey("Timeline", u, NoId)
KeySnapshots(u) == LoadKey("Snapshots", u, NoId)
KeyNovels == LoadKey("Novels", NoUid, NoId)
KeyChapters(n) == LoadKey("Chapters", NoUid, n)
KeyScenes(c) == LoadKey("Scenes", NoUid, c)

CoreKeys ==
    {KeyUniversesList, KeyBoardsList}
    \cup {KeyPmBoard(b) : b \in Boards}
    \cup {KeyCreatures(u) : u \in Universes} \cup {KeyLocations(u) : u \in Universes}
    \cup {KeyTimeline(u) : u \in Universes} \cup {KeySnapshots(u) : u \in Universes}
ForgeKeys ==
    {KeyNovels} \cup {KeyChapters(n) : n \in NovelIds} \cup {KeyScenes(c) : c \in ChapterIds}
AllKeys == CoreKeys \cup ForgeKeys

(* DbAction (src/src/state.rs); seq is the position in the enqueue order *)
Action(type, uid, target, id, parent, body, seq) ==
    [type |-> type, uid |-> uid, target |-> target, id |-> id,
     parent |-> parent, body |-> body, seq |-> seq]
NoAction == Action("none", NoUid, "none", NoId, NoId, 0, 0)

(* ConfirmAction (src/src/state.rs) *)
Confirm(type, uid, id) == [type |-> type, uid |-> uid, id |-> id]
NoConfirm == Confirm("none", NoUid, NoId)

(* Novel, Chapter, Scene (src/src/model.rs): the id, the parent's id and   *)
(* the content that can differ between two copies of one entity (a title   *)
(* or a scene body).                                                       *)
Ent(id, parent, v) == [id |-> id, parent |-> parent, v |-> v]

(* Message (src/src/messages.rs): uid and id are the message's scope, ok   *)
(* tells Ok from Err, route is the target of Navigate, val a text or a     *)
(* debounce token, data the rows of a Forge fetch result, tag the task     *)
(* that produced the message.                                              *)
Msg(type, uid, id, ok, route, val, data, tag) ==
    [type |-> type, uid |-> uid, id |-> id, ok |-> ok, route |-> route,
     val |-> val, data |-> data, tag |-> tag]
UserMsg(type, uid, id, val) == Msg(type, uid, id, TRUE, "none", val, <<>>, 0)

NoInstant == 0 - 1      \* Option<Instant>::None

-----------------------------------------------------------------------------
(* The Data Store.  Its contents are fixed sets per scope, disjoint        *)
(* between scopes, which is what lets a cache be told apart from another   *)
(* scope's.                                                                *)

DbUniverses == Universes
DbBoards == Boards
DbCreatures(u) == IF u = "uA" THEN {1} ELSE IF u = "uB" THEN {2} ELSE {}
DbLocations(u) == IF u = "uA" THEN {11} ELSE IF u = "uB" THEN {12} ELSE {}
DbTimeline(u) == IF u = "uA" THEN {21} ELSE IF u = "uB" THEN {22} ELSE {}
DbSnapshots(u) == IF u = "uA" THEN {31} ELSE IF u = "uB" THEN {32} ELSE {}
DbKanban(b) == IF b = "b1" THEN {41} ELSE {}

(* KanbanBoardData (src/src/model.rs): the board and its columns and cards *)
PmData(b) == [id |-> b, rows |-> DbKanban(b)]
NoPmData == [id |-> NoUid, rows |-> {}]       \* Option<KanbanData>::None

(* Card (src/src/model.rs), a row of the table cards *)
Card(id, column_id, position) == [id |-> id, column_id |-> column_id, position |-> position]

(* PmState (src/src/state.rs): Idle, or Dragging a card out of a column *)
Dragging(card_id, original_col, active) ==
    [card_id |-> card_id, original_col |-> original_col, active |-> active]
NoDrag == Dragging(NoId, NoId, FALSE)

-----------------------------------------------------------------------------
(* AppState::default() (src/src/state.rs:351-494), evaluated at time t.    *)
(* Only the fields the orchestration core reads or writes are kept.        *)

DefaultState(t) ==
    [route |-> RouteOverview,
     active_project |-> "none",
     projects |-> {},
     universes |-> {},
     boards_list |-> {},
     pending_confirm |-> NoConfirm,
     data_dirty |-> FALSE,
     loaded_creatures_universe |-> NoUid,
     loaded_locations_universe |-> NoUid,
     loaded_timeline_universe |-> NoUid,
     loaded_snapshots_universe |-> NoUid,
     loaded_forge_universe |-> NoUid,
     creatures |-> {},
     locations |-> {},
     timeline |-> {},
     snapshots |-> {},
     pm_data |-> NoPmData,
     pm_state |-> NoDrag,
     hovered_column |-> NoId,
     hovered_card |-> NoId,
     novels |-> <<>>,
     active_novel_id |-> NoId,
     active_novel_chapters |-> <<>>,
     chapters_by_novel_id |-> EmptyMap,
     active_chapter_id |-> NoId,
     active_chapter_scenes |-> <<>>,
     scenes_by_chapter_id |-> EmptyMap,
     expanded_novels |-> {},
     expanded_chapters |-> {},
     active_scene_id |-> NoId,
     forge_content |-> 0,
     forge_last_edit |-> NoInstant,
     last_create_scene_time |-> t,
     forge_debounce_task_id |-> NoId,
     last_novels_reload |-> t,
     last_chapters_reload |-> t,
     last_scenes_reload |-> t,
     forge_chapters_loaded_for |-> EmptyMap,
     forge_scenes_loaded_for |-> EmptyMap,
     forge_loading_in_progress |-> {},
     core_loading_in_progress |-> {},
     last_universes_reload |-> t,
     last_boards_reload |-> t,
     core_creatures_loaded_for |-> EmptyMap,
     core_locations_loaded_for |-> EmptyMap,
     core_timeline_loaded_for |-> EmptyMap,
     core_snapshots_loaded_for |-> EmptyMap,
     pm_board_loaded_for |-> EmptyMap,
     db_queue |-> <<>>,
     db_inflight |-> NoAction,
     trash_loaded |-> FALSE,
     enq |-> 0,      \* history: number of commands enqueued so far
     ends |-> 0]     \* history: releases of a load key by a fetch handler
                     \*          within the current run of App::update

(* Tasks returned by the controllers (iced::Task<Message>) *)
NoKey == LoadKey("none", NoUid, NoId)
FetchTask(key) == [type |-> "fetch", key |-> key, cmd |-> NoAction, uid |-> key.uid, val |-> 0]
FetchNovelsTask(uid) ==
    [type |-> "fetch", key |-> KeyNovels, cmd |-> NoAction, uid |-> uid, val |-> 0]
ExecTask(cmd) == [type |-> "exec", key |-> NoKey, cmd |-> cmd, uid |-> NoUid, val |-> 0]
DoneTask(key) == [type |-> "done", key |-> key, cmd |-> NoAction, uid |-> NoUid, val |-> 0]
OtherTask(type, val) == [type |-> type, key |-> NoKey, cmd |-> NoAction, uid |-> NoUid, val |-> val]

\* AppState::queue (src/src/state.rs:497-499)
queue(s, a) ==
    [s EXCEPT !.db_queue = Append(@, [a EXCEPT !.seq = s.enq + 1]), !.enq = @ + 1]

(* A controller result: the state, the tasks pushed so far, and the load   *)
(* keys for which a begin was attempted.                                   *)
Res(s, tasks, tried) == [s |-> s, tasks |-> tasks, tried |-> tried]

-----------------------------------------------------------------------------
(* Load Ledger (src/src/state.rs:607-656) *)

\* a faulty variant: the global begin that does not compare the clock with
\* the last reload
GlobalLoadUnthrottled(s, key, last_reload, throttle_ms, t) ==
    IF key \in s.core_loading_in_progress
    THEN [ok |-> FALSE, at |-> t, s |-> s]
    ELSE [ok |-> TRUE, at |-> t,
          s |-> [s EXCEPT !.core_loading_in_progress = @ \cup {key}]]

\* AppState::core_try_begin_global_load: the Option<Instant> is ok/at
core_try_begin_global_load(s, key, last_reload, throttle_ms, t) ==
    IF key \in s.core_loading_in_progress
    THEN [ok |-> FALSE, at |-> t, s |-> s]
    ELSE IF t - last_reload < throttle_ms
    THEN [ok |-> FALSE, at |-> t, s |-> s]
    ELSE [ok |-> TRUE, at |-> t,
          s |-> [s EXCEPT !.core_loading_in_progress = @ \cup {key}]]

\* a faulty variant: the begin that does not look the key up in the
\* in-progress set
ScopedLoadUnguarded(s, key, loaded_for, scope, throttle_ms, t) ==
    IF scope \in DOMAIN loaded_for /\ t - loaded_for[scope] < throttle_ms
    THEN [ok |-> FALSE, s |-> s]
    ELSE [ok |-> TRUE, s |-> [s EXCEPT !.core_loading_in_progress = @ \cup {key}]]

\* AppState::core_try_begin_scoped_load: loaded_for is the scope's map, scope its key
core_try_begin_scoped_load(s, key, loaded_for, scope, throttle_ms, t) ==
    IF key \in s.core_loading_in_progress
    THEN [ok |-> FALSE, s |-> s]
    ELSE LET allow == IF scope \in DOMAIN loaded_for
                      THEN t - loaded_for[scope] >= throttle_ms
                      ELSE TRUE
         IN IF ~allow
            THEN [ok |-> FALSE, s |-> s]
            ELSE [ok |-> TRUE,
                  s |-> [s EXCEPT !.core_loading_in_progress = @ \cup {key}]]

-----------------------------------------------------------------------------
(* post_event_tasks_controller.rs: route-driven lazy fetches *)

\* request_universes_if_needed
request_universes_if_needed(r, t) ==
    IF r.s.universes = {}
    THEN LET b == core_try_begin_global_load(r.s, KeyUniversesList,
                                             r.s.last_universes_reload, CORE_THROTTLE_MS, t)
         IN IF b.ok
            THEN Res([b.s EXCEPT !.last_universes_reload = b.at],
                     r.tasks \cup {FetchTask(KeyUniversesList)},
                     r.tried \cup {KeyUniversesList})
            ELSE Res(r.s, r.tasks, r.tried \cup {KeyUniversesList})
    ELSE r

\* request_boards_if_needed
request_boards_if_needed(r, t) ==
    IF r.s.boards_list = {}
    THEN LET b == core_try_begin_global_load(r.s, KeyBoardsList,
                                             r.s.last_boards_reload, CORE_THROTTLE_MS, t)
         IN IF b.ok
            THEN Res([b.s EXCEPT !.last_boards_reload = b.at],
                     r.tasks \cup {FetchTask(KeyBoardsList)},
                     r.tried \cup {KeyBoardsList})
            ELSE Res(r.s, r.tasks, r.tried \cup {KeyBoardsList})
    ELSE r

\* the common tail of the request_*_if_needed functions of the scoped kinds
BeginScoped(r, key, loaded_for, scope, t) ==
    LET b == core_try_begin_scoped_load(r.s, key, loaded_for, scope, CORE_THROTTLE_MS, t)
    IN IF b.ok
       THEN Res(b.s, r.tasks \cup {FetchTask(key)}, r.tried \cup {key})
       ELSE Res(r.s, r.tasks, r.tried \cup {key})

\* request_pm_board_if_needed
request_pm_board_if_needed(r, board_id, t) ==
    IF r.s.pm_data # NoPmData /\ r.s.pm_data.id = board_id
    THEN r
    ELSE BeginScoped(r, KeyPmBoard(board_id), r.s.pm_board_loaded_for, board_id, t)

\* a faulty variant: the creatures are requested only while the cache is
\* marked for no universe
RequestCreaturesWhenUnmarked(r, universe_id, t) ==
    IF r.s.loaded_creatures_universe # NoUid
    THEN r
    ELSE BeginScoped(r, KeyCreatures(universe_id), r.s.core_creatures_loaded_for, universe_id, t)


\* request_creatures_if_needed
request_creatures_if_needed(r, universe_id, t) ==
    IF r.s.loaded_creatures_universe = universe_id
    THEN r
    ELSE BeginScoped(r, KeyCreatures(universe_id), r.s.core_creatures_loaded_for, universe_id, t)

\* request_locations_if_needed
request_locations_if_needed(r, universe_id, t) ==
    IF r.s.loaded_locations_universe = universe_id
    THEN r
    ELSE BeginScoped(r, KeyLocations(universe_id), r.s.core_locations_loaded_for, universe_id, t)

\* request_timeline_if_needed
request_timeline_if_needed(r, universe_id, t) ==
    IF r.s.loaded_timeline_universe = universe_id
    THEN r
    ELSE BeginScoped(r, KeyTimeline(universe_id), r.s.core_timeline_loaded_for, universe_id, t)

\* request_snapshots_if_needed
request_snapshots_if_needed(r, universe_id, t) ==
    IF r.s.loaded_snapshots_universe = universe_id
    THEN r
    ELSE BeginScoped(r, KeySnapshots(universe_id), r.s.core_snapshots_loaded_for, universe_id, t)

\* post_event_tasks, step 1: pop one command when nothing is in flight
ProcessDbQueue(r) ==
    IF r.s.db_inflight = NoAction /\ Len(r.s.db_queue) > 0
    THEN Res([r.s EXCEPT !.db_inflight = Head(r.s.db_queue), !.db_queue = Tail(@)],
             r.tasks \cup {ExecTask(Head(r.s.db_queue))}, r.tried)
    ELSE r

KeyTrash == LoadKey("Trash", NoUid, NoId)    \* the trash fetch has no CoreLoadKey

\* post_event_tasks, trash fetch
TrashFetch(r) ==
    IF r.s.route.name = "Trash" /\ ~r.s.trash_loaded /\ r.s.db_inflight = NoAction
    THEN Res(r.s, r.tasks \cup {FetchTask(KeyTrash)}, r.tried)
    ELSE r

\* post_event_tasks, step 2: the match on the route
LazyFetchByRoute(r, t) ==
    LET route == r.s.route
        r1 == request_universes_if_needed(r, t)
        r2 == IF route.name \in {"Overview", "PmList", "PmBoard"}
              THEN request_boards_if_needed(r1, t)
              ELSE r1
    IN CASE route.name = "PmBoard" -> request_pm_board_if_needed(r2, route.uid, t)
         [] route.name = "Bestiary" ->
                request_locations_if_needed(request_creatures_if_needed(r2, route.uid, t),
                                            route.uid, t)
         [] route.name = "Locations" -> request_locations_if_needed(r2, route.uid, t)
         [] route.name = "Timeline" ->
                request_locations_if_needed(request_timeline_if_needed(r2, route.uid, t),
                                            route.uid, t)
         [] route.name = "UniverseDetail" -> request_snapshots_if_needed(r2, route.uid, t)
         [] OTHER -> r2

\* post_event_tasks (the schema-version and integrity fetches of the debug
\* overlay are not part of the load ledger and are left out)
post_event_tasks(s, dbv, t) ==
    IF dbv = "none"
    THEN Res(s, {}, {})
    ELSE LET r0 == Res(s, IF s.projects = {} THEN {OtherTask("projects", 0)} ELSE {}, {})
             r1 == ProcessDbQueue(r0)
             r2 == TrashFetch(r1)
         IN IF r2.s.db_inflight = NoAction /\ r2.s.db_queue = <<>>
            THEN LazyFetchByRoute(r2, t)
            ELSE r2

-----------------------------------------------------------------------------
(* forge_data_controller.rs: invalidation *)

\* invalidate_novels_cache
invalidate_novels_cache(s, t) ==
    [s EXCEPT !.forge_loading_in_progress = @ \ {KeyNovels},
              !.last_novels_reload = t - (NOVELS_THROTTLE_MS + 1)]

\* invalidate_chapters_cache without the reset of the last-reload timestamp
InvalidateChaptersKeepingThrottle(s, novel_id, t) ==
    [s EXCEPT !.forge_chapters_loaded_for = MapRemove(@, novel_id),
              !.forge_loading_in_progress = @ \ {KeyChapters(novel_id)}]

\* invalidate_chapters_cache
invalidate_chapters_cache(s, novel_id, t) ==
    [s EXCEPT !.forge_chapters_loaded_for = MapRemove(@, novel_id),
              !.forge_loading_in_progress = @ \ {KeyChapters(novel_id)},
              !.last_chapters_reload = t - (CHAPTERS_THROTTLE_MS + 1)]

\* invalidate_scenes_cache forgetting the loads of every chapter
InvalidateEveryScenesScope(s, chapter_id, t) ==
    [s EXCEPT !.forge_scenes_loaded_for = EmptyMap,
              !.forge_loading_in_progress = @ \ {KeyScenes(chapter_id)},
              !.last_scenes_reload = t - (SCENES_THROTTLE_MS + 1)]

\* invalidate_scenes_cache
invalidate_scenes_cache(s, chapter_id, t) ==
    [s EXCEPT !.forge_scenes_loaded_for = MapRemove(@, chapter_id),
              !.forge_loading_in_progress = @ \ {KeyScenes(chapter_id)},
              !.last_scenes_reload = t - (SCENES_THROTTLE_MS + 1)]

\* the_forge_controller.rs: cancel_debounce
cancel_debounce(s) ==
    [s EXCEPT !.forge_last_edit = NoInstant, !.forge_debounce_task_id = NoId]

-----------------------------------------------------------------------------
(* action_done_controller.rs *)

\* invalidate_trash
invalidate_trash(s) == [s EXCEPT !.trash_loaded = FALSE]

\* clear_forge_ui_state
clear_forge_ui_state(s) ==
    [s EXCEPT !.novels = <<>>, !.active_novel_id = NoId, !.active_novel_chapters = <<>>,
              !.active_chapter_id = NoId, !.active_chapter_scenes = <<>>,
              !.active_scene_id = NoId, !.forge_content = 0]

\* clear_universe_scoped_caches_if_match
clear_universe_scoped_caches_if_match(s, universe_id) ==
    LET s1 == IF s.loaded_creatures_universe = universe_id
              THEN [s EXCEPT !.loaded_creatures_universe = NoUid, !.creatures = {}]
              ELSE s
        s2 == [s1 EXCEPT !.core_creatures_loaded_for = MapRemove(@, universe_id),
                         !.core_loading_in_progress = @ \ {KeyCreatures(universe_id)}]
        s3 == IF s2.loaded_locations_universe = universe_id
              THEN [s2 EXCEPT !.loaded_locations_universe = NoUid, !.locations = {}]
              ELSE s2
        s4 == [s3 EXCEPT !.core_locations_loaded_for = MapRemove(@, universe_id),
                         !.core_loading_in_progress = @ \ {KeyLocations(universe_id)}]
        s5 == IF s4.loaded_timeline_universe = universe_id
              THEN [s4 EXCEPT !.loaded_timeline_universe = NoUid, !.timeline = {}]
              ELSE s4
        s6 == [s5 EXCEPT !.core_timeline_loaded_for = MapRemove(@, universe_id),
                         !.core_loading_in_progress = @ \ {KeyTimeline(universe_id)}]
        s7 == IF s6.loaded_snapshots_universe = universe_id
              THEN [s6 EXCEPT !.loaded_snapshots_universe = NoUid, !.snapshots = {}]
              ELSE s6
        s8 == [s7 EXCEPT !.core_snapshots_loaded_for = MapRemove(@, universe_id),
                         !.core_loading_in_progress = @ \ {KeySnapshots(universe_id)}]
    IN IF s8.loaded_forge_universe = universe_id
       THEN clear_forge_ui_state([s8 EXCEPT !.loaded_forge_universe = NoUid])
       ELSE s8

\* handle_deleted_universe
handle_deleted_universe(s, deleted_uid) ==
    LET s1 == [s EXCEPT !.universes = {}]
        s2 == IF s1.route = Route("UniverseDetail", deleted_uid)
              THEN [s1 EXCEPT !.route = Route("UniverseList", NoUid)]
              ELSE s1
    IN clear_universe_scoped_caches_if_match(s2, deleted_uid)

\* handle_deleted_board
handle_deleted_board(s, deleted_id) ==
    LET s1 == [s EXCEPT !.boards_list = {}]
        s2 == IF s1.route = Route("PmBoard", deleted_id)
              THEN [s1 EXCEPT !.route = Route("PmList", NoUid)]
              ELSE s1
    IN IF s2.pm_data # NoPmData /\ s2.pm_data.id = deleted_id
       THEN [s2 EXCEPT !.pm_data = NoPmData]
       ELSE s2

\* invalidate_after_restore_from_trash
invalidate_after_restore_from_trash(s) ==
    [invalidate_trash(s) EXCEPT
        !.universes = {}, !.boards_list = {}, !.novels = <<>>,
        !.loaded_creatures_universe = NoUid, !.creatures = {},
        !.loaded_locations_universe = NoUid, !.locations = {},
        !.loaded_timeline_universe = NoUid, !.timeline = {},
        !.loaded_snapshots_universe = NoUid, !.snapshots = {},
        !.core_creatures_loaded_for = EmptyMap, !.core_locations_loaded_for = EmptyMap,
        !.core_timeline_loaded_for = EmptyMap, !.core_snapshots_loaded_for = EmptyMap,
        !.core_loading_in_progress = {},
        !.loaded_forge_universe = NoUid,
        !.active_novel_chapters = <<>>, !.active_chapter_scenes = <<>>]

\* apply_global_invalidate_legacy
apply_global_invalidate_legacy(s) ==
    [s EXCEPT
        !.data_dirty = TRUE,
        !.loaded_creatures_universe = NoUid, !.loaded_locations_universe = NoUid,
        !.loaded_timeline_universe = NoUid, !.loaded_snapshots_universe = NoUid,
        !.core_creatures_loaded_for = EmptyMap, !.core_locations_loaded_for = EmptyMap,
        !.core_timeline_loaded_for = EmptyMap, !.core_snapshots_loaded_for = EmptyMap,
        !.core_loading_in_progress = {},
        !.pm_data = NoPmData]

\* handle_action_done, Ok branch: the match on the inflight action.  The
\* result is the state and the do_global_invalidate flag.
InvalidateFor(s, a, t) ==
    LET Specific(x) == [s |-> x, global |-> FALSE]
        Default(x) == [s |-> x, global |-> TRUE]
    IN
    CASE a.type = "CreateUniverse" -> Specific([s EXCEPT !.universes = {}])
      [] a.type = "MoveToTrash" /\ a.target = "universe" ->
            Specific(handle_deleted_universe(s, a.uid))
      [] a.type = "CreateBoard" -> Specific([s EXCEPT !.boards_list = {}])
      [] a.type = "MoveToTrash" /\ a.target = "board" ->
            Specific(handle_deleted_board(s, a.uid))
      [] a.type = "CreateNovel" -> Specific(invalidate_novels_cache(s, t))
      [] a.type = "CreateChapter" -> Specific(invalidate_chapters_cache(s, a.parent, t))
      [] a.type = "ReorderChapter" -> Specific(s)
      [] a.type = "CreateScene" -> Specific(invalidate_scenes_cache(s, a.parent, t))
      [] a.type = "ReorderScene" -> Specific(s)
      [] a.type = "MoveToTrash" /\ a.target = "novel" ->
            LET s1 == invalidate_novels_cache(s, t)
                s2 == IF s1.active_novel_id = a.id
                      THEN [s1 EXCEPT !.active_novel_id = NoId,
                                      !.active_novel_chapters = <<>>,
                                      !.active_chapter_id = NoId,
                                      !.active_chapter_scenes = <<>>,
                                      !.active_scene_id = NoId,
                                      !.forge_content = 0]
                      ELSE s1
            IN Specific([s2 EXCEPT !.expanded_novels = @ \ {a.id}])
      [] a.type = "MoveToTrash" /\ a.target = "chapter" ->
            LET s1 == IF a.parent # NoId THEN invalidate_chapters_cache(s, a.parent, t) ELSE s
                s2 == IF s1.active_chapter_id = a.id
                      THEN [s1 EXCEPT !.active_chapter_id = NoId,
                                      !.active_chapter_scenes = <<>>,
                                      !.active_scene_id = NoId,
                                      !.forge_content = 0]
                      ELSE s1
            IN Specific([s2 EXCEPT !.expanded_chapters = @ \ {a.id}])
      [] a.type = "MoveToTrash" /\ a.target = "scene" ->
            LET s1 == IF a.parent # NoId THEN invalidate_scenes_cache(s, a.parent, t) ELSE s
            IN Specific(IF s1.active_scene_id = a.id
                        THEN [s1 EXCEPT !.active_scene_id = NoId, !.forge_content = 0]
                        ELSE s1)
      [] a.type = "UpdateNovel" -> Specific(invalidate_novels_cache(s, t))
      [] a.type = "UpdateChapter" -> Specific(invalidate_chapters_cache(s, a.parent, t))
      [] a.type = "UpdateScene" -> Specific(invalidate_scenes_cache(s, a.parent, t))
      [] a.type = "RestoreFromTrash" -> Specific(invalidate_after_restore_from_trash(s))
      [] a.type = "PermanentDelete" -> Specific(invalidate_trash(s))
      [] a.type = "EmptyTrash" -> Default(invalidate_trash(s))
      [] a.type = "SaveCreature" ->
            Specific([s EXCEPT !.loaded_creatures_universe = NoUid, !.creatures = {},
                               !.core_creatures_loaded_for = MapRemove(@, a.uid),
                               !.core_loading_in_progress = @ \ {KeyCreatures(a.uid)}])
      [] a.type = "ArchiveCreature" ->
            Specific([s EXCEPT !.loaded_creatures_universe = NoUid, !.creatures = {},
                               !.core_creatures_loaded_for = EmptyMap,
                               !.core_loading_in_progress =
                                    {k \in @ : k.kind # "Creatures"}])
      [] a.type = "SaveLocation" ->
            Specific([s EXCEPT !.loaded_locations_universe = NoUid, !.locations = {},
                               !.core_locations_loaded_for = MapRemove(@, a.uid),
                               !.core_loading_in_progress = @ \ {KeyLocations(a.uid)}])
      [] OTHER -> Default(s)

\* The Err(String) of a command, as the pieces of text the handler looks for.
\* CapabilityDisabledError (guards.rs:75-83) displays as the first text.
CapabilityDisabled(cap) == <<"Capability '", cap, "' is disabled in this project">>
ErrorTexts ==
    {CapabilityDisabled("forge"),
     <<"Trash restore blocked by capability: ">> \o CapabilityDisabled("trash"),
     <<"Unknown capability">>,
     <<"database is locked">>}

\* e.contains(word), for the three words handle_action_done looks for
HasWord(e, word) ==
    \E i \in DOMAIN e :
        e[i] \in CASE word = "disabled in this project" -> {"' is disabled in this project"}
                   [] word = "capability" ->
                         {"Trash restore blocked by capability: ", "Unknown capability"}
                   [] word = "Capability" -> {"Capability '"}
                   [] OTHER -> {}

\* Toast (state.rs): its kind and its message
Toast(kind, message) == [kind |-> kind, message |-> message]

\* the toasts handle_action_done shows (show_toast keeps the newest toast)
ActionDoneToasts(inflight, ok, e) ==
    IF ~ok
    THEN <<Toast("Error",
                 IF HasWord(e, "disabled in this project")
                 THEN <<"Feature disabled: ">>
                        \o SelectSeq(e, LAMBDA w : w \notin {"Capability '",
                                                             "' is disabled in this project"})
                 ELSE IF HasWord(e, "capability") \/ HasWord(e, "Capability")
                 THEN <<"Permission error: ">> \o e
                 ELSE <<"Action failed: ">> \o e)>>
    ELSE CASE inflight.type = "InjectDemoData" -> <<Toast("Success", <<"Demo data injected">>)>>
           [] inflight.type = "MoveToTrash" -> <<Toast("Success", <<"moved to trash">>)>>
           [] inflight.type = "RestoreFromTrash" ->
                 <<Toast("Success", <<"Item restored from trash">>)>>
           [] inflight.type \in {"SaveCreature", "ArchiveCreature", "SaveLocation"} ->
                 <<Toast("Success", <<"saved">>)>>
           [] inflight.type = "EmptyTrash" -> <<Toast("Success", <<"Trash emptied">>)>>
           [] OTHER -> <<>>

\* a faulty variant: a failed command stays in the inflight slot
HandleActionDoneKeepingFailed(s, ok, t) ==
    IF ok
    THEN apply_global_invalidate_legacy([s EXCEPT !.db_inflight = NoAction])
    ELSE s


\* a faulty variant: the caches are invalidated whatever the result
HandleActionDoneInvalidating(s, ok, t) ==
    apply_global_invalidate_legacy([s EXCEPT !.db_inflight = NoAction])

\* a faulty variant: a failed command goes back to the head of the queue
HandleActionDoneRetrying(s, ok, t) ==
    IF ok \/ s.db_inflight = NoAction
    THEN apply_global_invalidate_legacy([s EXCEPT !.db_inflight = NoAction])
    ELSE [s EXCEPT !.db_inflight = NoAction, !.db_queue = <<s.db_inflight>> \o @]

\* handle_action_done (its toasts are ActionDoneToasts)
handle_action_done(s, ok, t) ==
    LET inflight == s.db_inflight
        s0 == [s EXCEPT !.db_inflight = NoAction]
    IN IF ~ok
       THEN s0
       ELSE IF inflight = NoAction
       THEN apply_global_invalidate_legacy(s0)
       ELSE LET s1 == IF inflight.type = "MoveToTrash" THEN invalidate_trash(s0) ELSE s0
                m == InvalidateFor(s1, inflight, t)
            IN IF m.global THEN apply_global_invalidate_legacy(m.s) ELSE m.s

-----------------------------------------------------------------------------
(* Entity lists (Vec<Novel>, Vec<Chapter>, Vec<Scene>) *)

Max(S) == CHOOSE x \in S : \A y \in S : x >= y
Ids(list) == {list[i].id : i \in DOMAIN list}
Contains(list, id) == id \in Ids(list)
\* list.iter().find(|e| e.id == id), for an id the list contains
Find(list, id) == list[Min({i \in DOMAIN list : list[i].id = id})]
\* list.first().map(|e| e.id)
FirstId(list) == IF Len(list) = 0 THEN NoId ELSE list[1].id
\* HashMap::get on a tree entry, None read as the empty list
Entry(m, k) == IF k \in DOMAIN m THEN m[k] ELSE <<>>

\* for e in list { by_id.insert(e.id, e) }: a later entry replaces an earlier one
InsertAll(by_id, list) ==
    [x \in (DOMAIN by_id) \cup Ids(list) |->
        IF x \in Ids(list)
        THEN list[Max({i \in DOMAIN list : list[i].id = x})]
        ELSE by_id[x]]

\* by_id.into_values().collect() followed by sort_by(|a, b| a.id.cmp(&b.id))
RECURSIVE SortedValues(_)
SortedValues(by_id) ==
    IF DOMAIN by_id = {}
    THEN <<>>
    ELSE LET k == Min(DOMAIN by_id)
         IN <<by_id[k]>> \o SortedValues(MapRemove(by_id, k))

\* a faulty variant: the fetched entities are put behind those of the tree
MergeAppended(fetched, tree, scope) == Entry(tree, scope) \o fetched


\* a faulty variant: the merge that inserts the fetched entities last
MergeFetchedLast(fetched, tree, scope) ==
    SortedValues(InsertAll(InsertAll(EmptyMap, Entry(tree, scope)), fetched))

\* the merge of handle_forge_chapters_fetched and handle_scenes_fetched
\* (navigation_controller.rs:145-158, 479-492)
MergeFetched(fetched, tree, scope) ==
    LET by_id == InsertAll(EmptyMap, fetched)
        both == IF scope \in DOMAIN tree THEN InsertAll(by_id, tree[scope]) ELSE by_id
    IN SortedValues(both)

-----------------------------------------------------------------------------
(* forge_data_controller.rs: loads *)

\* load_novels_if_needed
load_novels_if_needed(s, t) ==
    IF s.route # RouteForge \/ Len(s.novels) > 0
    THEN Res(s, {}, {})
    ELSE IF KeyNovels \in s.forge_loading_in_progress
    THEN Res(s, {}, {KeyNovels})
    ELSE IF t - s.last_novels_reload < NOVELS_THROTTLE_MS
    THEN Res(s, {}, {KeyNovels})
    ELSE IF s.loaded_forge_universe = NoUid
    THEN Res(s, {}, {KeyNovels})
    ELSE Res([s EXCEPT !.last_novels_reload = t,
                       !.forge_loading_in_progress = @ \cup {KeyNovels}],
             {FetchNovelsTask(s.loaded_forge_universe)}, {KeyNovels})

\* mark_novels_load_finished
mark_novels_load_finished(s) ==
    [s EXCEPT !.forge_loading_in_progress = @ \ {KeyNovels}, !.ends = @ + 1]

\* load_chapters_if_needed
load_chapters_if_needed(s, novel_id, t) ==
    LET key == KeyChapters(novel_id)
    IN IF s.route # RouteForge \/ s.active_novel_id # novel_id
       THEN Res(s, {}, {})
       ELSE IF key \in s.forge_loading_in_progress
       THEN Res(s, {}, {key})
       ELSE IF novel_id \in DOMAIN s.forge_chapters_loaded_for
               /\ t - s.forge_chapters_loaded_for[novel_id] < CHAPTERS_THROTTLE_MS
       THEN Res(s, {}, {key})
       ELSE IF t - s.last_chapters_reload < CHAPTERS_THROTTLE_MS
       THEN Res(s, {}, {key})
       ELSE Res([s EXCEPT !.last_chapters_reload = t,
                          !.forge_loading_in_progress = @ \cup {key}],
                {FetchTask(key)}, {key})

\* mark_chapters_load_finished
mark_chapters_load_finished(s, novel_id, t) ==
    [s EXCEPT !.forge_loading_in_progress = @ \ {KeyChapters(novel_id)},
              !.forge_chapters_loaded_for = MapInsert(@, novel_id, t),
              !.ends = @ + 1]

\* load_scenes_if_needed
load_scenes_if_needed(s, chapter_id, t) ==
    LET key == KeyScenes(chapter_id)
    IN IF s.route # RouteForge \/ s.active_chapter_id # chapter_id
       THEN Res(s, {}, {})
       ELSE IF key \in s.forge_loading_in_progress
       THEN Res(s, {}, {key})
       ELSE IF chapter_id \in DOMAIN s.forge_scenes_loaded_for
               /\ t - s.forge_scenes_loaded_for[chapter_id] < SCENES_THROTTLE_MS
       THEN Res(s, {}, {key})
       ELSE IF t - s.last_scenes_reload < SCENES_THROTTLE_MS
       THEN Res(s, {}, {key})
       ELSE Res([s EXCEPT !.last_scenes_reload = t,
                          !.forge_loading_in_progress = @ \cup {key}],
                {FetchTask(key)}, {key})

\* mark_scenes_load_finished
mark_scenes_load_finished(s, chapter_id, t) ==
    [s EXCEPT !.forge_loading_in_progress = @ \ {KeyScenes(chapter_id)},
              !.forge_scenes_loaded_for = MapInsert(@, chapter_id, t),
              !.ends = @ + 1]

-----------------------------------------------------------------------------
(* navigation_controller.rs: selection repair and the Forge fetch handlers *)

\* ensure_forge_safe_fallback, step 1: the active novel must exist
FallbackNovel(s) ==
    IF s.active_novel_id # NoId /\ Contains(s.novels, s.active_novel_id)
    THEN s
    ELSE cancel_debounce([s EXCEPT !.active_novel_id = FirstId(s.novels),
                                   !.active_novel_chapters = <<>>,
                                   !.active_chapter_id = NoId,
                                   !.active_chapter_scenes = <<>>,
                                   !.active_scene_id = NoId,
                                   !.forge_content = 0])

\* ensure_forge_safe_fallback, steps 2 and 3: expand the active novel, take its
\* chapters from the tree when the active list is empty, validate the chapter
FallbackChapter(s) ==
    IF s.active_novel_id = NoId
    THEN s
    ELSE LET novel_id == s.active_novel_id
             s1 == [s EXCEPT !.expanded_novels = @ \cup {novel_id}]
             s2 == IF Len(s1.active_novel_chapters) = 0
                      /\ novel_id \in DOMAIN s1.chapters_by_novel_id
                   THEN [s1 EXCEPT !.active_novel_chapters = s1.chapters_by_novel_id[novel_id]]
                   ELSE s1
         IN IF s2.active_chapter_id # NoId
               /\ Contains(s2.active_novel_chapters, s2.active_chapter_id)
            THEN s2
            ELSE cancel_debounce(
                    [s2 EXCEPT !.active_chapter_id = FirstId(s2.active_novel_chapters),
                               !.active_chapter_scenes = <<>>,
                               !.active_scene_id = NoId,
                               !.forge_content = 0])

\* a faulty variant: the scene is validated before the active list is taken
\* from the tree
FallbackSceneUnsynced(s) ==
    IF s.active_chapter_id = NoId
    THEN s
    ELSE LET chapter_id == s.active_chapter_id
             s1 == [s EXCEPT !.expanded_chapters = @ \cup {chapter_id}]
             s2 == IF s1.active_scene_id # NoId
                      /\ Contains(s1.active_chapter_scenes, s1.active_scene_id)
                   THEN s1
                   ELSE cancel_debounce(
                            [s1 EXCEPT !.active_scene_id = FirstId(s1.active_chapter_scenes),
                                       !.forge_content = 0])
         IN IF Len(s2.active_chapter_scenes) = 0
               /\ chapter_id \in DOMAIN s2.scenes_by_chapter_id
            THEN [s2 EXCEPT !.active_chapter_scenes = s2.scenes_by_chapter_id[chapter_id]]
            ELSE s2

\* ensure_forge_safe_fallback, steps 4 and 5: expand the active chapter, take
\* its scenes from the tree when the active list is empty, validate the scene
FallbackScene(s) ==
    IF s.active_chapter_id = NoId
    THEN s
    ELSE LET chapter_id == s.active_chapter_id
             s1 == [s EXCEPT !.expanded_chapters = @ \cup {chapter_id}]
             s2 == IF Len(s1.active_chapter_scenes) = 0
                      /\ chapter_id \in DOMAIN s1.scenes_by_chapter_id
                   THEN [s1 EXCEPT !.active_chapter_scenes = s1.scenes_by_chapter_id[chapter_id]]
                   ELSE s1
         IN IF s2.active_scene_id # NoId
               /\ Contains(s2.active_chapter_scenes, s2.active_scene_id)
            THEN s2
            ELSE LET s3 == [s2 EXCEPT !.active_scene_id = FirstId(s2.active_chapter_scenes)]
                 IN IF s3.active_scene_id = NoId
                    THEN cancel_debounce([s3 EXCEPT !.forge_content = 0])
                    ELSE s3

\* ensure_forge_safe_fallback
ensure_forge_safe_fallback(s) ==
    IF s.route # RouteForge
    THEN s
    ELSE FallbackScene(FallbackChapter(FallbackNovel(s)))

\* handle_novels_fetched (the toast of the Err branch is not modelled)
handle_novels_fetched(s, ok, novels) ==
    IF ~ok
    THEN mark_novels_load_finished(s)
    ELSE LET s1 == [mark_novels_load_finished(s) EXCEPT
                        !.novels = novels,
                        !.expanded_novels = @ \cup Ids(novels)]
             s2 == IF s1.active_novel_id = NoId /\ Len(novels) > 0
                   THEN [s1 EXCEPT !.active_novel_id = novels[1].id,
                                   !.active_novel_chapters = <<>>,
                                   !.active_chapter_id = NoId,
                                   !.active_chapter_scenes = <<>>,
                                   !.active_scene_id = NoId]
                   ELSE s1
         IN ensure_forge_safe_fallback(s2)

\* handle_forge_chapters_fetched
handle_forge_chapters_fetched(s, novel_id, ok, chapters, t) ==
    IF ~ok
    THEN mark_chapters_load_finished(s, novel_id, t)
    ELSE LET s0 == mark_chapters_load_finished(s, novel_id, t)
             merged == MergeFetched(chapters, s0.chapters_by_novel_id, novel_id)
             s1 == [s0 EXCEPT !.chapters_by_novel_id = MapInsert(@, novel_id, merged)]
             s2 == IF s1.active_novel_id = novel_id
                   THEN LET s3 == [s1 EXCEPT !.active_novel_chapters = merged,
                                             !.expanded_chapters = @ \cup Ids(merged)]
                        IN IF s3.active_chapter_id = NoId /\ Len(merged) > 0
                           THEN [s3 EXCEPT !.active_chapter_id = merged[1].id,
                                           !.active_chapter_scenes = <<>>,
                                           !.active_scene_id = NoId]
                           ELSE s3
                   ELSE s1
         IN ensure_forge_safe_fallback(s2)

\* handle_scenes_fetched
handle_scenes_fetched(s, chapter_id, ok, scenes, t) ==
    IF ~ok
    THEN mark_scenes_load_finished(s, chapter_id, t)
    ELSE LET s0 == mark_scenes_load_finished(s, chapter_id, t)
             merged == MergeFetched(scenes, s0.scenes_by_chapter_id, chapter_id)
             s1 == [s0 EXCEPT !.scenes_by_chapter_id = MapInsert(@, chapter_id, merged)]
             s2 == IF s1.active_chapter_id = chapter_id
                   THEN [s1 EXCEPT !.active_chapter_scenes = merged,
                                   !.active_scene_id =
                                        IF @ = NoId THEN FirstId(merged) ELSE @]
                   ELSE s1
         IN ensure_forge_safe_fallback(s2)

\* handle_forge_scenes_fetched
handle_forge_scenes_fetched(s, chapter_id, ok, scenes, t) ==
    handle_scenes_fetched(s, chapter_id, ok, scenes, t)

-----------------------------------------------------------------------------
(* the_forge_controller.rs.  Clicks are single clicks (at least 500 ms     *)
(* apart); the rename flow they can start is outside the model.            *)

UpdateSceneAction(scene) == Action("UpdateScene", NoUid, "scene", scene.id, scene.parent, scene.v, 0)

\* auto_save_before_switch
auto_save_before_switch(s) ==
    IF s.active_scene_id # NoId /\ Contains(s.active_chapter_scenes, s.active_scene_id)
    THEN queue(s, UpdateSceneAction(Find(s.active_chapter_scenes, s.active_scene_id)))
    ELSE s

\* universes.first(): the Data Store lists the universes in this order
FirstUniverse(us) == IF "uA" \in us THEN "uA" ELSE IF "uB" \in us THEN "uB" ELSE NoUid

\* TheForgeMessage::Open
ForgeOpen(s, universe_id) ==
    LET s1 == [s EXCEPT !.route = RouteForge]
        target == IF universe_id # NoUid THEN universe_id
                  ELSE IF s1.loaded_forge_universe # NoUid THEN s1.loaded_forge_universe
                  ELSE FirstUniverse(s1.universes)
        s2 == IF s1.loaded_forge_universe # target
              THEN [s1 EXCEPT !.loaded_forge_universe = target,
                              !.novels = <<>>, !.active_novel_id = NoId,
                              !.active_novel_chapters = <<>>, !.active_chapter_id = NoId,
                              !.active_chapter_scenes = <<>>, !.active_scene_id = NoId,
                              !.forge_content = 0]
              ELSE s1
    IN Res(s2, IF s2.loaded_forge_universe # NoUid THEN {DoneTask(KeyNovels)} ELSE {}, {})

\* TheForgeMessage::SelectNovel
ForgeSelectNovel(s, id) ==
    LET s1 == auto_save_before_switch(s)
    IN IF s1.active_novel_id = id
       THEN s1
       ELSE cancel_debounce([s1 EXCEPT !.active_novel_id = id,
                                       !.active_novel_chapters = <<>>,
                                       !.active_chapter_id = NoId,
                                       !.active_chapter_scenes = <<>>,
                                       !.active_scene_id = NoId,
                                       !.forge_content = 0])

\* TheForgeMessage::CreateChapter; chapter_id is the fresh uuid
ForgeCreateChapter(s, novel_id, chapter_id) ==
    LET new_chapter == Ent(chapter_id, novel_id, 0)
        s1 == [s EXCEPT !.active_novel_chapters = Append(@, new_chapter),
                        !.chapters_by_novel_id =
                            MapInsert(@, novel_id, Append(Entry(@, novel_id), new_chapter)),
                        !.expanded_novels = @ \cup {novel_id},
                        !.expanded_chapters = @ \cup {chapter_id},
                        !.active_chapter_id = chapter_id,
                        !.active_scene_id = NoId,
                        !.active_chapter_scenes = <<>>,
                        !.forge_content = 0]
    IN queue(cancel_debounce(s1),
             Action("CreateChapter", NoUid, "chapter", chapter_id, novel_id, 0, 0))

\* TheForgeMessage::SelectChapter
ForgeSelectChapter(s, chapter_id) ==
    LET s1 == auto_save_before_switch(s)
    IN IF s1.active_chapter_id = chapter_id
       THEN s1
       ELSE cancel_debounce([s1 EXCEPT !.active_chapter_id = chapter_id,
                                       !.active_chapter_scenes = <<>>,
                                       !.active_scene_id = NoId,
                                       !.forge_content = 0])

\* TheForgeMessage::CreateScene; scene_id is the fresh uuid
ForgeCreateScene(s, chapter_id, scene_id, t) ==
    IF t - s.last_create_scene_time < CREATE_SCENE_MIN_MS
    THEN s
    ELSE LET s0 == [s EXCEPT !.last_create_scene_time = t]
             s1 == IF s0.active_chapter_id # chapter_id
                   THEN cancel_debounce([s0 EXCEPT !.active_chapter_id = chapter_id,
                                                   !.active_chapter_scenes = <<>>,
                                                   !.active_scene_id = NoId,
                                                   !.forge_content = 0])
                   ELSE s0
             new_scene == Ent(scene_id, chapter_id, 0)
             entry == Entry(s1.scenes_by_chapter_id, chapter_id)
             s2 == [s1 EXCEPT
                      !.expanded_chapters = @ \cup {chapter_id},
                      !.scenes_by_chapter_id =
                          MapInsert(@, chapter_id,
                                    IF Contains(entry, scene_id) THEN entry
                                    ELSE Append(entry, new_scene)),
                      !.active_chapter_scenes =
                          IF Contains(@, scene_id) THEN @ ELSE Append(@, new_scene),
                      !.active_scene_id = scene_id,
                      !.forge_content = 0]
         IN queue(cancel_debounce(s2),
                  Action("CreateScene", NoUid, "scene", scene_id, chapter_id, 0, 0))

\* TheForgeMessage::SelectScene
ForgeSelectScene(s, id) ==
    LET s1 == auto_save_before_switch(s)
    IN IF s1.active_scene_id = id
       THEN s1
       ELSE cancel_debounce(
                [s1 EXCEPT !.active_scene_id = id,
                           !.forge_content =
                               IF Contains(s1.active_chapter_scenes, id)
                               THEN Find(s1.active_chapter_scenes, id).v
                               ELSE @])

\* TheForgeMessage::SceneBodyChanged; text is the editor buffer after the edit
ForgeSceneBodyChanged(s, text, t) ==
    LET list == s.active_chapter_scenes
        task_id == s.forge_debounce_task_id + 1      \* unwrap_or(0) + 1
        s1 == [s EXCEPT
                 !.forge_content = text,
                 !.active_chapter_scenes =
                     IF s.active_scene_id # NoId /\ Contains(list, s.active_scene_id)
                     THEN [list EXCEPT
                             ![Min({i \in DOMAIN list : list[i].id = s.active_scene_id})].v = text]
                     ELSE list,
                 !.forge_last_edit = t,
                 !.forge_debounce_task_id = task_id]
    IN Res(s1, {OtherTask("debounce", task_id)}, {})

\* TheForgeMessage::SaveCurrentScene
ForgeSaveCurrentScene(s) == auto_save_before_switch(s)

\* a faulty variant: the save is queued whatever token the message carries
DebounceCompleteAnyToken(s, completed_id, t) ==
    IF s.forge_debounce_task_id # NoId
       /\ s.forge_last_edit # NoInstant
       /\ t - s.forge_last_edit >= AUTOSAVE_DELAY_MS
       /\ s.active_scene_id # NoId /\ Contains(s.active_chapter_scenes, s.active_scene_id)
    THEN [queue(s, UpdateSceneAction(Find(s.active_chapter_scenes, s.active_scene_id)))
             EXCEPT !.forge_debounce_task_id = NoId]
    ELSE s

\* TheForgeMessage::DebounceComplete
ForgeDebounceComplete(s, completed_id, t) ==
    IF s.forge_debounce_task_id # NoId /\ s.forge_debounce_task_id = completed_id
       /\ s.forge_last_edit # NoInstant
       /\ t - s.forge_last_edit >= AUTOSAVE_DELAY_MS
       /\ s.active_scene_id # NoId /\ Contains(s.active_chapter_scenes, s.active_scene_id)
    THEN [queue(s, UpdateSceneAction(Find(s.active_chapter_scenes, s.active_scene_id)))
             EXCEPT !.forge_debounce_task_id = NoId]
    ELSE s

\* TheForgeMessage::ToggleNovel
ForgeToggleNovel(s, novel_id) ==
    IF novel_id \in s.expanded_novels
    THEN Res([s EXCEPT !.expanded_novels = @ \ {novel_id}], {}, {})
    ELSE Res([s EXCEPT !.expanded_novels = @ \cup {novel_id}, !.active_novel_id = novel_id],
             {DoneTask(KeyChapters(novel_id))}, {})

\* TheForgeMessage::ToggleChapter
ForgeToggleChapter(s, chapter_id) ==
    IF chapter_id \in s.expanded_chapters
    THEN Res(IF s.active_chapter_id = chapter_id
             THEN [s EXCEPT !.expanded_chapters = @ \ {chapter_id},
                            !.active_chapter_id = NoId,
                            !.active_chapter_scenes = <<>>,
                            !.active_scene_id = NoId]
             ELSE [s EXCEPT !.expanded_chapters = @ \ {chapter_id}],
             {}, {})
    ELSE Res([s EXCEPT !.expanded_chapters = @ \cup {chapter_id},
                       !.active_chapter_id = chapter_id,
                       !.active_scene_id = NoId],
             {DoneTask(KeyScenes(chapter_id))}, {})

\* the_forge_controller::update
the_forge_update(s, msg, t) ==
    CASE msg.type = "ForgeOpen" -> ForgeOpen(s, msg.uid)
      [] msg.type = "SelectNovel" -> Res(ForgeSelectNovel(s, msg.id), {}, {})
      [] msg.type = "CreateChapter" -> Res(ForgeCreateChapter(s, msg.id, msg.val), {}, {})
      [] msg.type = "SelectChapter" -> Res(ForgeSelectChapter(s, msg.id), {}, {})
      [] msg.type = "CreateScene" -> Res(ForgeCreateScene(s, msg.id, msg.val, t), {}, {})
      [] msg.type = "SelectScene" -> Res(ForgeSelectScene(s, msg.id), {}, {})
      [] msg.type = "SceneBodyChanged" -> ForgeSceneBodyChanged(s, msg.val, t)
      [] msg.type = "SaveCurrentScene" -> Res(ForgeSaveCurrentScene(s), {}, {})
      [] msg.type = "DebounceComplete" -> Res(ForgeDebounceComplete(s, msg.val, t), {}, {})
      [] msg.type = "ToggleNovel" -> ForgeToggleNovel(s, msg.id)
      [] msg.type = "ToggleChapter" -> ForgeToggleChapter(s, msg.id)
      [] msg.type \in {"DeleteNovel", "DeleteChapter", "DeleteScene"} ->
            Res([s EXCEPT !.pending_confirm = Confirm(msg.type, NoUid, msg.id)], {}, {})
      [] OTHER -> Res(s, {}, {})

ForgeMsgTypes ==
    {"ForgeOpen", "SelectNovel", "CreateChapter", "SelectChapter", "CreateScene",
     "SelectScene", "SceneBodyChanged", "SaveCurrentScene", "DebounceComplete",
     "ToggleNovel", "ToggleChapter", "DeleteNovel", "DeleteChapter", "DeleteScene"}

-----------------------------------------------------------------------------
(* universe_controller.rs *)

\* universe_controller::update
universe_update(s, msg) ==
    CASE msg.type = "UniverseDelete" ->
            [s EXCEPT !.pending_confirm = Confirm("DeleteUniverse", msg.uid, NoId)]
      [] msg.type = "UniverseOpen" -> [s EXCEPT !.route = Route("UniverseDetail", msg.uid)]
      [] msg.type = "InjectDemoData" ->
            queue(s, Action("InjectDemoData", msg.uid, "none", NoId, NoId, 0, 0))
      [] msg.type = "SnapshotRefresh" ->
            [s EXCEPT !.loaded_snapshots_universe = NoUid,
                      !.core_snapshots_loaded_for = MapRemove(@, msg.uid),
                      !.core_loading_in_progress = @ \ {KeySnapshots(msg.uid)},
                      !.route = Route("UniverseDetail", msg.uid)]
      [] OTHER -> s

UniverseMsgTypes == {"UniverseDelete", "UniverseOpen", "InjectDemoData", "SnapshotRefresh"}

-----------------------------------------------------------------------------
(* navigation_controller.rs: try_handle *)

\* navigation_controller::try_handle with the Denied branch of
\* messages_controller::update (messages_controller.rs:20-46)
navigation_try_handle(s, msg) ==
    CASE msg.type = "Navigate" ->
            IF s.active_project = "none"
            THEN [s EXCEPT !.route = RouteWorkspaces]
            ELSE [s EXCEPT !.route = Route(msg.route, msg.uid)]
      [] msg.type = "BackToUniverses" -> [s EXCEPT !.route = Route("UniverseList", NoUid)]
      [] msg.type = "OpenTimeline" -> [s EXCEPT !.route = Route("Timeline", msg.uid)]
      [] OTHER -> s

NavigationMsgTypes == {"Navigate", "BackToUniverses", "OpenTimeline"}

-----------------------------------------------------------------------------
(* messages_controller.rs *)

\* a faulty variant: the rows are applied whatever the route shows
CreaturesFetchedAnyRoute(s, universe_id, ok, t) ==
    LET s0 == [s EXCEPT !.core_loading_in_progress = @ \ {KeyCreatures(universe_id)},
                        !.ends = @ + 1]
    IN IF ok
       THEN [s0 EXCEPT !.creatures = DbCreatures(universe_id),
                       !.loaded_creatures_universe = universe_id,
                       !.core_creatures_loaded_for = MapInsert(@, universe_id, t)]
       ELSE s0

\* the scoped core fetch handlers share one shape: release the key, then
\* apply the rows only when the route still shows the scope
CreaturesFetched(s, universe_id, ok, t) ==
    LET s0 == [s EXCEPT !.core_loading_in_progress = @ \ {KeyCreatures(universe_id)},
                        !.ends = @ + 1]
        still_relevant == s0.route = Route("Bestiary", universe_id)
    IN IF ok /\ still_relevant
       THEN [s0 EXCEPT !.creatures = DbCreatures(universe_id),
                       !.loaded_creatures_universe = universe_id,
                       !.core_creatures_loaded_for = MapInsert(@, universe_id, t)]
       ELSE s0

\* a faulty variant: the rows are stored whenever the fetch succeeded, the
\* marker only when the route still shows the universe
LocationsFetchedAnyRoute(s, universe_id, ok, t) ==
    LET s0 == [s EXCEPT !.core_loading_in_progress = @ \ {KeyLocations(universe_id)},
                        !.ends = @ + 1]
        still_relevant == s0.route \in {Route("Locations", universe_id),
                                        Route("Bestiary", universe_id),
                                        Route("Timeline", universe_id)}
        s1 == IF ok THEN [s0 EXCEPT !.locations = DbLocations(universe_id)] ELSE s0
    IN IF ok /\ still_relevant
       THEN [s1 EXCEPT !.loaded_locations_universe = universe_id,
                       !.core_locations_loaded_for = MapInsert(@, universe_id, t)]
       ELSE s1

LocationsFetched(s, universe_id, ok, t) ==
    LET s0 == [s EXCEPT !.core_loading_in_progress = @ \ {KeyLocations(universe_id)},
                        !.ends = @ + 1]
        still_relevant == s0.route \in {Route("Locations", universe_id),
                                        Route("Bestiary", universe_id),
                                        Route("Timeline", universe_id)}
    IN IF ok /\ still_relevant
       THEN [s0 EXCEPT !.locations = DbLocations(universe_id),
                       !.loaded_locations_universe = universe_id,
                       !.core_locations_loaded_for = MapInsert(@, universe_id, t)]
       ELSE s0

TimelineFetched(s, universe_id, ok, t) ==
    LET s0 == [s EXCEPT !.core_loading_in_progress = @ \ {KeyTimeline(universe_id)},
                        !.ends = @ + 1]
        still_relevant == s0.route = Route("Timeline", universe_id)
    IN IF ok /\ still_relevant
       THEN [s0 EXCEPT !.timeline = DbTimeline(universe_id),
                       !.loaded_timeline_universe = universe_id,
                       !.core_timeline_loaded_for = MapInsert(@, universe_id, t)]
       ELSE s0

SnapshotsFetched(s, universe_id, ok, t) ==
    LET s0 == [s EXCEPT !.core_loading_in_progress = @ \ {KeySnapshots(universe_id)},
                        !.ends = @ + 1]
        still_relevant == s0.route = Route("UniverseDetail", universe_id)
    IN IF ok /\ still_relevant
       THEN [s0 EXCEPT !.snapshots = DbSnapshots(universe_id),
                       !.loaded_snapshots_universe = universe_id,
                       !.core_snapshots_loaded_for = MapInsert(@, universe_id, t)]
       ELSE s0

PmBoardFetched(s, board_id, ok, t) ==
    LET s0 == [s EXCEPT !.core_loading_in_progress = @ \ {KeyPmBoard(board_id)},
                        !.ends = @ + 1]
        is_current_route == s0.route = Route("PmBoard", board_id)
    IN IF ok /\ is_current_route
       THEN [s0 EXCEPT !.pm_board_loaded_for = MapInsert(@, board_id, t),
                       !.pm_data = PmData(board_id)]
       ELSE s0

UniversesFetched(s, ok) ==
    LET s0 == [s EXCEPT !.core_loading_in_progress = @ \ {KeyUniversesList}, !.ends = @ + 1]
    IN IF ok THEN [s0 EXCEPT !.universes = DbUniverses] ELSE s0

BoardsFetched(s, ok) ==
    LET s0 == [s EXCEPT !.core_loading_in_progress = @ \ {KeyBoardsList}, !.ends = @ + 1]
    IN IF ok THEN [s0 EXCEPT !.boards_list = DbBoards] ELSE s0

\* the keys of a tree under which a list holds the entity id
KeysHolding(tree, id) == {k \in DOMAIN tree : Contains(tree[k], id)}

\* list.retain(|e| e.id != id)
Without(list, id) == SelectSeq(list, LAMBDA e : e.id # id)

\* ConfirmAction::DeleteNovel
ConfirmDeleteNovel(s, id) ==
    IF ~Contains(s.novels, id)
    THEN s
    ELSE LET s1 == queue(s, Action("MoveToTrash", NoUid, "novel", id, NoId,
                                   Find(s.novels, id).v, 0))
             s2 == [s1 EXCEPT !.novels = Without(@, id)]
         IN IF s2.active_novel_id = id
            THEN [s2 EXCEPT !.active_novel_id = NoId, !.active_novel_chapters = <<>>,
                            !.active_chapter_id = NoId, !.active_chapter_scenes = <<>>,
                            !.active_scene_id = NoId]
            ELSE s2

\* ConfirmAction::DeleteChapter: the chapter is looked up in the tree, then
\* in the active list
ConfirmDeleteChapter(s, id, t) ==
    LET keys == KeysHolding(s.chapters_by_novel_id, id)
        chapter == IF keys # {}
                   THEN Find(s.chapters_by_novel_id[CHOOSE k \in keys : TRUE], id)
                   ELSE Find(s.active_novel_chapters, id)
    IN IF keys = {} /\ ~Contains(s.active_novel_chapters, id)
       THEN s
       ELSE LET s1 == queue(s, Action("MoveToTrash", NoUid, "chapter", id,
                                      chapter.parent, chapter.v, 0))
                s2 == [s1 EXCEPT
                         !.chapters_by_novel_id =
                             IF chapter.parent \in DOMAIN @
                             THEN [@ EXCEPT ![chapter.parent] = Without(@, id)]
                             ELSE @,
                         !.scenes_by_chapter_id = MapRemove(@, id),
                         !.active_novel_chapters = Without(@, id),
                         !.active_chapter_scenes = <<>>,
                         !.expanded_chapters = @ \ {id},
                         !.active_chapter_id = IF @ = id THEN NoId ELSE @,
                         !.active_scene_id = NoId,
                         !.forge_content = 0]
            IN invalidate_scenes_cache(invalidate_chapters_cache(s2, chapter.parent, t), id, t)

\* a faulty variant: the scene leaves the lists and stays selected
ConfirmDeleteSceneKeepingSelection(s, id) ==
    [queue(s, Action("MoveToTrash", NoUid, "scene", id, NoId, 0, 0)) EXCEPT
        !.scenes_by_chapter_id = [k \in DOMAIN @ |-> Without(@[k], id)],
        !.active_chapter_scenes = Without(@, id)]

\* ConfirmAction::DeleteScene: the scene is looked up in the tree, then in
\* the active list; the copy found is the payload of the trash entry
ConfirmDeleteScene(s, id) ==
    LET keys == KeysHolding(s.scenes_by_chapter_id, id)
        chapter_id == IF keys # {} THEN CHOOSE k \in keys : TRUE
                      ELSE Find(s.active_chapter_scenes, id).parent
        scene == IF keys # {}
                 THEN Find(s.scenes_by_chapter_id[chapter_id], id)
                 ELSE Find(s.active_chapter_scenes, id)
    IN IF keys = {} /\ ~Contains(s.active_chapter_scenes, id)
       THEN s
       ELSE LET s1 == queue(s, Action("MoveToTrash", NoUid, "scene", id,
                                      scene.parent, scene.v, 0))
                left == Without(Entry(s1.scenes_by_chapter_id, chapter_id), id)
                s2 == [s1 EXCEPT
                         !.scenes_by_chapter_id =
                             IF chapter_id \notin DOMAIN @ THEN @
                             ELSE IF left = <<>> THEN MapRemove(@, chapter_id)
                             ELSE MapInsert(@, chapter_id, left),
                         !.active_chapter_scenes = Without(@, id),
                         !.active_scene_id = IF @ = id THEN NoId ELSE @]
            IN IF s2.active_scene_id = NoId
               THEN cancel_debounce([s2 EXCEPT !.forge_content = 0])
               ELSE s2

\* Message::ConfirmDelete (the board and bestiary branches are not modelled)
ConfirmDelete(s, t) ==
    LET action == s.pending_confirm
        s0 == [s EXCEPT !.pending_confirm = NoConfirm]
    IN CASE action.type = "DeleteUniverse" ->
              IF action.uid \in s0.universes
              THEN queue(s0, Action("MoveToTrash", action.uid, "universe", NoId, NoId, 0, 0))
              ELSE s0
         [] action.type = "DeleteNovel" -> ConfirmDeleteNovel(s0, action.id)
         [] action.type = "DeleteChapter" -> ConfirmDeleteChapter(s0, action.id, t)
         [] action.type = "DeleteScene" -> ConfirmDeleteScene(s0, action.id)
         [] OTHER -> s0

\* messages_controller::update (toasts are not modelled)
messages_update(s, msg, t) ==
    IF msg.type \in NavigationMsgTypes
    THEN Res(navigation_try_handle(s, msg), {}, {})
    ELSE IF msg.type \in UniverseMsgTypes
    THEN Res(universe_update(s, msg), {}, {})
    ELSE IF msg.type \in ForgeMsgTypes
    THEN the_forge_update(s, msg, t)
    ELSE Res(
        CASE msg.type = "UniversesFetched" -> UniversesFetched(s, msg.ok)
          [] msg.type = "BoardsFetched" -> BoardsFetched(s, msg.ok)
          [] msg.type = "PmBoardFetched" -> PmBoardFetched(s, msg.uid, msg.ok, t)
          [] msg.type = "CreaturesFetched" -> CreaturesFetched(s, msg.uid, msg.ok, t)
          [] msg.type = "LocationsFetched" -> LocationsFetched(s, msg.uid, msg.ok, t)
          [] msg.type = "TimelineFetched" -> TimelineFetched(s, msg.uid, msg.ok, t)
          [] msg.type = "SnapshotsFetched" -> SnapshotsFetched(s, msg.uid, msg.ok, t)
          [] msg.type = "NovelsFetched" -> handle_novels_fetched(s, msg.ok, msg.data)
          [] msg.type = "ForgeChaptersFetched" ->
                handle_forge_chapters_fetched(s, msg.id, msg.ok, msg.data, t)
          [] msg.type = "ForgeScenesFetched" ->
                handle_forge_scenes_fetched(s, msg.id, msg.ok, msg.data, t)
          [] msg.type = "ConfirmDelete" -> ConfirmDelete(s, t)
          [] msg.type = "CancelConfirm" -> [s EXCEPT !.pending_confirm = NoConfirm]
          [] msg.type = "TrashFetched" -> IF msg.ok THEN [s EXCEPT !.trash_loaded = TRUE] ELSE s
          [] msg.type = "RestoreFromTrash" ->
                queue(s, Action("RestoreFromTrash", NoUid, "trash", msg.id, NoId, 0, 0))
          [] msg.type = "PermanentDelete" ->
                queue(s, Action("PermanentDelete", NoUid, "trash", msg.id, NoId, 0, 0))
          [] msg.type = "EmptyTrash" ->
                queue(s, Action("EmptyTrash", NoUid, "trash", NoId, NoId, 0, 0))
          [] OTHER -> s,
        {}, {})

-----------------------------------------------------------------------------
(* workspace_controller.rs *)

Projects == {"p1"}     \* the launcher's project list; p1 is of kind Universe

\* workspace_controller::try_handle: the state, the database handle and the tasks
workspace_try_handle(s, dbv, msg, t) ==
    CASE msg.type = "WorkspaceOpen" ->
            IF msg.uid \in s.projects
            THEN [s |-> [s EXCEPT !.active_project = msg.uid, !.route = RouteOverview],
                  db |-> dbv, tasks |-> {OtherTask("connect", 0)}]
            ELSE [s |-> s, db |-> dbv, tasks |-> {}]
      [] msg.type = "CloseProject" ->
            [s |-> [DefaultState(t) EXCEPT !.route = RouteWorkspaces, !.enq = s.enq,
                                           !.ends = s.ends],
             db |-> "none", tasks |-> {OtherTask("projects", 0)}]
      [] msg.type = "DbLoaded" ->
            [s |-> s, db |-> IF msg.ok THEN "open" ELSE dbv, tasks |-> {}]
      [] msg.type = "ProjectsLoaded" ->
            [s |-> [s EXCEPT !.projects = Projects], db |-> dbv, tasks |-> {}]
      [] OTHER -> [s |-> s, db |-> dbv, tasks |-> {}]

-----------------------------------------------------------------------------
(* ui_controller.rs: App::update *)

\* step 2: the Forge load requests
ForgeLoadRequests(s, dbv, msg, t) ==
    IF dbv = "none"
    THEN Res(s, {}, {})
    ELSE CASE msg.type = "ForgeRequestLoadNovels" -> load_novels_if_needed(s, t)
           [] msg.type = "ForgeRequestLoadChapters" -> load_chapters_if_needed(s, msg.id, t)
           [] msg.type = "ForgeRequestLoadScenes" -> load_scenes_if_needed(s, msg.id, t)
           [] OTHER -> Res(s, {}, {})

\* step 4: the fetch results App::update handles itself
DirectFetchResults(s, msg, t) ==
    CASE msg.type = "UniversesFetched" /\ msg.ok ->
            [s EXCEPT !.universes = DbUniverses, !.data_dirty = FALSE]
      [] msg.type = "BoardsFetched" /\ msg.ok -> [s EXCEPT !.boards_list = DbBoards]
      [] msg.type = "NovelsFetched" -> handle_novels_fetched(s, msg.ok, msg.data)
      [] msg.type = "ForgeScenesFetched" ->
            handle_forge_scenes_fetched(s, msg.id, msg.ok, msg.data, t)
      [] OTHER -> s

\* the state at the start of a run of App::update
Fresh(s) == [s EXCEPT !.ends = 0]

\* a command is in flight or queued
Writing(s) == s.db_inflight # NoAction \/ Len(s.db_queue) > 0
Fetches(tasks) == {k \in tasks : k.type = "fetch"}

\* App::update is a sequence of steps over one record: the state s, the
\* database handle db, the tasks collected so far, the keys for which a begin
\* was attempted (tried) and whether a fetch was started while a command was
\* in flight or queued (busy)
Run(s, dbv, tasks, tried, busy) ==
    [s |-> s, db |-> dbv, tasks |-> tasks, tried |-> tried, busy |-> busy]

\* step 1: the workspace controller
LifecycleStep(w) == Run(w.s, w.db, w.tasks, {}, FALSE)

\* step 2: the Forge load requests, judged on the state they start from
ForgeLoadsDone(a, f) ==
    Run(f.s, a.db, a.tasks \cup f.tasks, f.tried, Fetches(f.tasks) # {} /\ Writing(a.s))
ForgeLoadStep(a, msg, t) == ForgeLoadsDone(a, ForgeLoadRequests(a.s, a.db, msg, t))

\* step 3: the side effects of ActionDone
ActionDoneStep(a, msg, t) ==
    IF msg.type = "ActionDone"
    THEN [a EXCEPT !.s = handle_action_done(a.s, msg.ok, t)]
    ELSE a

\* step 4: the fetch results App::update handles itself
DirectStep(a, msg, t) == [a EXCEPT !.s = DirectFetchResults(a.s, msg, t)]

\* step 5: the messages controller
MessagesDone(a, m) == Run(m.s, a.db, a.tasks \cup m.tasks, a.tried, a.busy)
MessagesStep(a, msg, t) == MessagesDone(a, messages_update(a.s, msg, t))

\* step 7: the post-event scheduler, only with an active project; its
\* fetches are judged on the state after the dequeue.  mid is the state the
\* scheduler started from.
PostEventDone(a, p) ==
    [s |-> p.s, db |-> a.db, mid |-> a.s, tasks |-> a.tasks \cup p.tasks,
     tried |-> a.tried \cup p.tried,
     busy |-> a.busy \/ (Fetches(p.tasks) # {} /\ Writing(p.s))]
PostEventStep(a, t) ==
    PostEventDone(a, IF a.s.active_project # "none"
                     THEN post_event_tasks(a.s, a.db, t)
                     ELSE Res(a.s, {}, {}))

\* App::update
App_update(s, dbv, msg, t) ==
    PostEventStep(
        MessagesStep(
            DirectStep(
                ActionDoneStep(
                    ForgeLoadStep(
                        LifecycleStep(workspace_try_handle(Fresh(s), dbv, msg, t)),
                        msg, t),
                    msg, t),
                msg, t),
            msg, t),
        t)

-----------------------------------------------------------------------------
(* The Data Store of the Forge: rows of the novels, chapters and scenes    *)
(* tables of the project database (src/src/db/novels.rs).                  *)

InitStore ==
    [novels |-> <<Ent(1, NoId, 0)>>,      \* the novels of universe uA, newest first
     chapters |-> {Ent(1, 1, 0)},
     scenes |-> {Ent(1, 1, 0)},
     trash |-> {},                        \* the rows of trash_entry
     cards |-> <<>>]                      \* the rows of cards, in row order

\* the rows of a table under one parent, as a list
Rows(table, parent) ==
    SortedValues([i \in {e.id : e \in {x \in table : x.parent = parent}} |->
                    CHOOSE e \in table : e.id = i])

\* Database::get_novels, get_chapters, get_scenes.  The handlers sort what
\* they merge by id, so the ORDER BY position of the two queries is not kept.
DbFetch(st, key, uid) ==
    CASE key.kind = "Novels" -> IF uid = "uA" THEN st.novels ELSE <<>>
      [] key.kind = "Chapters" -> Rows(st.chapters, key.id)
      [] key.kind = "Scenes" -> Rows(st.scenes, key.id)
      [] OTHER -> <<>>

\* TrashEntry (src/src/model.rs): the entry's id, the kind and the id of the
\* entity it holds, the id of the entity's parent, and payload_json as the
\* entity it deserializes to
TrashEntry(id, target, target_id, parent, payload) ==
    [id |-> id, target |-> target, target_id |-> target_id, parent |-> parent,
     payload |-> payload]

ForgeTargets == {"novel", "chapter", "scene"}

\* the tables after DELETE FROM novels / chapters / scenes WHERE id = ?: the
\* chapters of a deleted novel and the scenes of a deleted chapter go with
\* their parent (ON DELETE CASCADE)
DeleteRows(st, target, id) ==
    LET chapters == {c \in st.chapters : ~(target = "chapter" /\ c.id = id)
                                          /\ ~(target = "novel" /\ c.parent = id)}
        gone == {c.id : c \in st.chapters \ chapters}
    IN [st EXCEPT
          !.novels = IF target = "novel" THEN SelectSeq(@, LAMBDA e : e.id # id) ELSE @,
          !.chapters = chapters,
          !.scenes = {x \in @ : ~(target = "scene" /\ x.id = id) /\ x.parent \notin gone}]

\* Database::move_to_trash_and_delete, committed: the trash entry is written
\* and the rows of a novel, chapter or scene are deleted (the tables of the
\* other kinds are not part of the store).  The uuid of the entry is drawn
\* fresh; seq stands for it.
move_to_trash_and_delete(st, a) ==
    IF a.target \in ForgeTargets
    THEN DeleteRows([st EXCEPT !.trash = @ \cup {TrashEntry(a.seq, a.target, a.id, a.parent,
                                                            Ent(a.id, a.parent, a.body))}],
                    a.target, a.id)
    ELSE st

\* restore_from_trash: ensure_exists
ensure_exists(st, kind, id) ==
    CASE kind = "novels" -> Contains(st.novels, id)
      [] kind = "chapters" -> \E c \in st.chapters : c.id = id
      [] OTHER -> TRUE      \* the universes of a project are fixed here

\* restore_novel, restore_chapter, restore_scene: a plain INSERT of the
\* deserialized entity, which a row with the same id makes fail
restore_novel(st, novel) ==
    [possible |-> ~Contains(st.novels, novel.id),
     st |-> [st EXCEPT !.novels = <<novel>> \o @]]
restore_chapter(st, chapter) ==
    [possible |-> Contains(st.novels, chapter.parent)
                    /\ \A c \in st.chapters : c.id # chapter.id,
     st |-> [st EXCEPT !.chapters = @ \cup {chapter}]]
restore_scene(st, scene) ==
    [possible |-> (\E c \in st.chapters : c.id = scene.parent)
                    /\ \A x \in st.scenes : x.id # scene.id,
     st |-> [st EXCEPT !.scenes = @ \cup {scene}]]

\* restore_from_trash without its checks of the parent
RestoreUnchecked(st, entry_id) ==
    LET found == {e \in st.trash : e.id = entry_id}
        e == CHOOSE x \in found : TRUE
    IN IF found = {}
       THEN [possible |-> FALSE, st |-> st]
       ELSE [possible |-> TRUE,
             st |-> [st EXCEPT
                       !.novels = IF e.target = "novel" THEN <<e.payload>> \o @ ELSE @,
                       !.chapters = IF e.target = "chapter" THEN @ \cup {e.payload} ELSE @,
                       !.scenes = IF e.target = "scene" THEN @ \cup {e.payload} ELSE @,
                       !.trash = @ \ {e}]]

\* Database::restore_from_trash up to the DELETE of the trash entry: the
\* entry is read, the parent of the entity is checked, the entity is
\* inserted, the entry is deleted
restore_from_trash(st, entry_id) ==
    LET found == {e \in st.trash : e.id = entry_id}
        e == CHOOSE x \in found : TRUE
        Refused == [possible |-> FALSE, st |-> st]
        r == CASE e.target = "novel" -> restore_novel(st, e.payload)
               [] e.target = "chapter" ->
                     IF ensure_exists(st, "novels", e.payload.parent)
                     THEN restore_chapter(st, e.payload) ELSE Refused
               [] e.target = "scene" ->
                     IF ensure_exists(st, "chapters", e.payload.parent)
                     THEN restore_scene(st, e.payload) ELSE Refused
               [] OTHER -> [possible |-> TRUE, st |-> st]
    IN IF found = {} \/ ~r.possible
       THEN Refused
       ELSE [possible |-> TRUE, st |-> [r.st EXCEPT !.trash = @ \ {e}]]

\* the statements of a command up to its audit row: what they leave in the
\* store; possible is FALSE when they can only fail
\* ORDER BY position ASC: rows of equal position stay in row order
RECURSIVE OrderByPosition(_)
OrderByPosition(rows) ==
    IF rows = <<>>
    THEN <<>>
    ELSE LET k == Min({i \in DOMAIN rows :
                         \A j \in DOMAIN rows : rows[i].position <= rows[j].position})
         IN <<rows[k]>> \o OrderByPosition(SubSeq(rows, 1, k - 1)
                                              \o SubSeq(rows, k + 1, Len(rows)))

\* SELECT ... FROM cards WHERE column_id = ? ORDER BY position ASC
\* (get_kanban_data and rebalance_column, src/src/db/kanban.rs)
ColumnCards(cards, column_id) ==
    OrderByPosition(SelectSeq(cards, LAMBDA c : c.column_id = column_id))

\* Database::move_card (src/src/db/kanban.rs:144-152)
move_card(cards, card_id, column_id, pos) ==
    [i \in DOMAIN cards |->
        IF cards[i].id = card_id
        THEN [cards[i] EXCEPT !.column_id = column_id, !.position = pos]
        ELSE cards[i]]

\* Database::rebalance_column (src/src/db/kanban.rs:159-168): the i-th card
\* of the column, counted from 0, gets position (i + 1) * 1000
rebalance_column(cards, column_id) ==
    [i \in DOMAIN cards |->
        IF cards[i].column_id = column_id
        THEN [cards[i] EXCEPT !.position =
                 Min({k \in DOMAIN ColumnCards(cards, column_id) :
                        ColumnCards(cards, column_id)[k].id = cards[i].id}) * 1000]
        ELSE cards[i]]

DbApply(st, a) ==
    CASE a.type = "CreateChapter" ->
            [possible |-> Contains(st.novels, a.parent),
             st |-> [st EXCEPT !.chapters = @ \cup {Ent(a.id, a.parent, 0)}]]
      [] a.type = "CreateScene" ->
            [possible |-> \E c \in st.chapters : c.id = a.parent,
             st |-> [st EXCEPT !.scenes = @ \cup {Ent(a.id, a.parent, 0)}]]
      [] a.type = "UpdateScene" ->
            [possible |-> TRUE,
             st |-> [st EXCEPT !.scenes =
                        {IF e.id = a.id THEN [e EXCEPT !.v = a.body] ELSE e : e \in @}]]
      [] a.type = "MoveToTrash" ->
            [possible |-> TRUE, st |-> move_to_trash_and_delete(st, a)]
      [] a.type = "RestoreFromTrash" -> restore_from_trash(st, a.id)
      [] a.type = "PermanentDelete" ->
            [possible |-> TRUE, st |-> [st EXCEPT !.trash = {e \in @ : e.id # a.id}]]
      [] a.type = "EmptyTrash" -> [possible |-> TRUE, st |-> [st EXCEPT !.trash = {}]]
      [] a.type = "MoveCard" ->
            [possible |-> TRUE,
             st |-> [st EXCEPT !.cards = move_card(@, a.id, a.parent, a.body)]]
      [] a.type = "RebalanceColumn" ->
            [possible |-> TRUE, st |-> [st EXCEPT !.cards = rebalance_column(@, a.id)]]
      [] OTHER -> [possible |-> TRUE, st |-> st]

\* a row of audit_log
AuditRow(a) == [action |-> a.type, entity_type |-> a.target, entity_id |-> a.id]

\* db_controller::execute: the result, the store it leaves and the audit rows
\* it wrote.  fails: a statement before the audit row fails; audit_ok: the
\* INSERT INTO audit_log succeeds.
\*  - MoveToTrash writes its audit row inside its transaction, so a failed
\*    audit row rolls the command back;
\*  - RestoreFromTrash, PermanentDelete and EmptyTrash write it with `?'
\*    after their other statements, outside a transaction;
\*  - every other command gets it from the best-effort hook of execute.
execute(st, a, fails, audit_ok) ==
    LET primary == DbApply(st, a)
        Failed == [ok |-> FALSE, st |-> st, audit |-> {}]
        Done(ok) == [ok |-> ok, st |-> primary.st,
                     audit |-> IF audit_ok THEN {AuditRow(a)} ELSE {}]
    IN IF fails \/ ~primary.possible
       THEN Failed
       ELSE CASE a.type = "MoveToTrash" -> IF audit_ok THEN Done(TRUE) ELSE Failed
              [] a.type \in {"RestoreFromTrash", "EmptyTrash"} -> Done(audit_ok)
              [] a.type = "PermanentDelete" ->
                    IF \E e \in st.trash : e.id = a.id
                    THEN Done(audit_ok)
                    ELSE [ok |-> TRUE, st |-> primary.st, audit |-> {}]
              [] OTHER -> Done(TRUE)

-----------------------------------------------------------------------------
(* The runtime around App::update: tasks become messages, messages are     *)
(* dispatched one at a time.                                               *)

LedgerKeys == AllKeys \cup {KeyTrash}
ForgeKinds == {"Novels", "Chapters", "Scenes"}
\* the message a fetch task answers with
ResponseType(kind) ==
    CASE kind = "UniversesList" -> "UniversesFetched"
      [] kind = "BoardsList" -> "BoardsFetched"
      [] kind = "PmBoard" -> "PmBoardFetched"
      [] kind = "Creatures" -> "CreaturesFetched"
      [] kind = "Locations" -> "LocationsFetched"
      [] kind = "Timeline" -> "TimelineFetched"
      [] kind = "Snapshots" -> "SnapshotsFetched"
      [] kind = "Trash" -> "TrashFetched"
      [] kind = "Novels" -> "NovelsFetched"
      [] kind = "Chapters" -> "ForgeChaptersFetched"
      [] kind = "Scenes" -> "ForgeScenesFetched"
Response(f, ok, data) ==
    Msg(ResponseType(f.key.kind), f.key.uid, f.key.id, ok, "none", 0, data, f.tag)
FetchResponseTypes ==
    {ResponseType(k) : k \in {"UniversesList", "BoardsList", "PmBoard", "Creatures",
                              "Locations", "Timeline", "Snapshots", "Trash",
                              "Novels", "Chapters", "Scenes"}}
\* the load key a fetch response answers
KeyOf(msg) == CHOOSE k \in LedgerKeys :
                 ResponseType(k.kind) = msg.type /\ k.uid = msg.uid /\ k.id = msg.id

\* the message of a Task::done or of a Task::perform that reads no row; the
\* tag of a DebounceComplete is the time at which debounce_save wakes up
TaskMsg(k, t) ==
    CASE k.type = "done" /\ k.key.kind = "Novels" -> UserMsg("ForgeRequestLoadNovels", NoUid, NoId, 0)
      [] k.type = "done" /\ k.key.kind = "Chapters" ->
            UserMsg("ForgeRequestLoadChapters", NoUid, k.key.id, 0)
      [] k.type = "done" /\ k.key.kind = "Scenes" ->
            UserMsg("ForgeRequestLoadScenes", NoUid, k.key.id, 0)
      [] k.type = "debounce" ->
            Msg("DebounceComplete", NoUid, NoId, TRUE, "none", k.val, <<>>, t + AUTOSAVE_DELAY_MS)
      [] k.type = "connect" -> UserMsg("DbLoaded", NoUid, NoId, 0)
      [] k.type = "projects" -> UserMsg("ProjectsLoaded", NoUid, NoId, 0)

InProgress(s) == s.core_loading_in_progress \cup s.forge_loading_in_progress

\* the tags of the fetch tasks of a key that are running or whose response
\* has not been handled yet
Outstanding(tasks, msgs, key) ==
    {f.tag : f \in {x \in tasks : x.key = key}}
        \cup {m.tag : m \in {x \in msgs : x.type = ResponseType(key.kind)
                                            /\ x.uid = key.uid /\ x.id = key.id}}

\* last names what the latest step handled: the fetch response of a run of
\* App::update, or the function a step of a function-level specification
\* applied, with its key, its verdict and its data
Call(type, key, ok, data) == [type |-> type, key |-> key, ok |-> ok, data |-> data]
NoCall == Call("none", NoKey, TRUE, <<>>)

Cur ==
    [state |-> state, db |-> db, store |-> store, executing |-> executing,
     fetching |-> fetching, inbox |-> inbox, now |-> now, issued |-> issued,
     completed |-> completed, begun |-> begun, last |-> last]

\* the configuration after one run of App::update on msg, which came from the
\* inbox (from_inbox) or answers the fetch task from_fetch; r is what the run
\* returned
Outcome(c, r, msg, from_inbox, from_fetch) ==
    LET started == {k.key : k \in Fetches(r.tasks)}
        StartedUid(key) == (CHOOSE x \in r.tasks : x.type = "fetch" /\ x.key = key).uid
        \* a tag that tells the new task from the outstanding ones of its key
        Used(key) == Outstanding(c.fetching, c.inbox, key)
        FreeTag(key) == Min({n \in 1..(Cardinality(Used(key)) + 1) : n \notin Used(key)})
    IN [state |-> r.s,
        db |-> r.db,
        store |-> c.store,
        executing |-> c.executing \cup {k.cmd : k \in {x \in r.tasks : x.type = "exec"}},
        fetching |-> (c.fetching \ from_fetch)
                        \cup {[key |-> k, uid |-> StartedUid(k), tag |-> FreeTag(k)] :
                                k \in started},
        inbox |-> (c.inbox \ from_inbox)
                     \cup {TaskMsg(k, c.now) : k \in {x \in r.tasks : x.type \notin {"fetch", "exec"}}},
        now |-> c.now,
        issued |-> c.issued + Cardinality(started),
        completed |-> IF msg.type = "ActionDone" THEN Append(c.completed, msg.tag)
                      ELSE c.completed,
        begun |-> [k \in AllKeys |->
                     LET n == IF k \in started THEN 1 ELSE 0
                     IN IF k \in CoreKeys
                        THEN (IF k \in r.mid.core_loading_in_progress THEN c.begun[k] ELSE 0) + n
                        ELSE IF k \notin r.s.forge_loading_in_progress THEN 0
                        ELSE (IF k \in c.state.forge_loading_in_progress
                              THEN c.begun[k] ELSE 0) + n],
        last |-> IF msg.type \in FetchResponseTypes
                 THEN Call(msg.type, KeyOf(msg), msg.ok, <<>>)
                 ELSE NoCall]

Dispatched(c, msg, from_inbox, from_fetch) ==
    Outcome(c, App_update(c.state, c.db, msg, c.now), msg, from_inbox, from_fetch)

SetAll(c) ==
    /\ state' = c.state /\ db' = c.db /\ store' = c.store
    /\ executing' = c.executing /\ fetching' = c.fetching /\ inbox' = c.inbox
    /\ now' = c.now /\ issued' = c.issued /\ completed' = c.completed
    /\ begun' = c.begun /\ last' = c.last

\* the step to configuration c, within the bounds on commands, fetches and
\* editor changes
Bounded(c, max_cmds, max_fetches) ==
    /\ c.state.enq <= max_cmds
    /\ c.issued <= max_fetches
    /\ c.state.forge_debounce_task_id <= MaxEdits
    /\ SetAll(c)

Dispatch(msg, from_inbox, from_fetch, max_cmds, max_fetches) ==
    Bounded(Dispatched(Cur, msg, from_inbox, from_fetch), max_cmds, max_fetches)

InitCfg ==
    [state |-> [DefaultState(0) EXCEPT !.route = RouteWorkspaces],
     db |-> "none",
     store |-> InitStore,
     executing |-> {},
     fetching |-> {},
     inbox |-> {UserMsg("ProjectsLoaded", NoUid, NoId, 0)},
     now |-> 0,
     issued |-> 0,
     completed |-> <<>>,
     begun |-> [k \in AllKeys |-> 0],
     last |-> NoCall]

\* the variables hold the configuration c
IsCfg(c) ==
    /\ state = c.state /\ db = c.db /\ store = c.store
    /\ executing = c.executing /\ fetching = c.fetching /\ inbox = c.inbox
    /\ now = c.now /\ issued = c.issued /\ completed = c.completed
    /\ begun = c.begun /\ last = c.last

\* the state after construction (App::new, ui_controller.rs:31-54)
Init == IsCfg(InitCfg)

-----------------------------------------------------------------------------
(* Steps of the runtime and of the environment *)

\* the clock advances
Tick ==
    /\ now + TickMs <= MaxNow
    /\ now' = now + TickMs
    /\ UNCHANGED <<state, db, store, executing, fetching, inbox, issued, completed, begun, last>>

\* db_controller::task_execute runs one dequeued command against the Data
\* Store and schedules its ActionDone; the audit rows are read by no handler
\* and are not kept
DbExecute ==
    \E a \in executing, fails \in BOOLEAN, audit_ok \in BOOLEAN :
        /\ store' = execute(store, a, fails, audit_ok).st
        /\ executing' = executing \ {a}
        /\ inbox' = inbox \cup {Msg("ActionDone", NoUid, NoId,
                                     execute(store, a, fails, audit_ok).ok,
                                     "none", 0, <<>>, a.seq)}
        /\ UNCHANGED <<state, db, fetching, now, issued, completed, begun, last>>

\* a Forge fetch task reads its rows and schedules its response
DbRead ==
    \E f \in fetching, ok \in BOOLEAN :
        /\ f.key.kind \in ForgeKinds
        /\ fetching' = fetching \ {f}
        /\ inbox' = inbox \cup {Response(f, ok, IF ok THEN DbFetch(store, f.key, f.uid) ELSE <<>>)}
        /\ UNCHANGED <<state, db, store, executing, now, issued, completed, begun, last>>

\* a core fetch task answers, Ok or Err
Answer(f, ok, max_cmds, max_fetches) ==
    Dispatch(Response(f, ok, <<>>), {}, {f}, max_cmds, max_fetches)

NavigateMsg(r) == Msg("Navigate", r.uid, NoId, TRUE, r.name, 0, <<>>, 0)

\* a step that is one run of App::update: the clock stands still, no command
\* finishes executing and no Forge fetch task reads its rows
IsDispatch ==
    /\ now' = now
    /\ executing \subseteq executing'
    /\ {f \in fetching : f.key.kind \in ForgeKinds} \subseteq fetching'

-----------------------------------------------------------------------------
(* Spec: the life cycle of a project, from the launcher on *)

OnProjectsLoaded ==
    \E m \in inbox :
        /\ m.type = "ProjectsLoaded"
        /\ Dispatch(m, {m}, {}, MaxCmds, MaxFetches)
\* the launcher lists the projects on the Workspaces route
OnWorkspaceOpen ==
    /\ state.route = RouteWorkspaces
    /\ Dispatch(UserMsg("WorkspaceOpen", "p1", NoId, 0), {}, {}, MaxCmds, MaxFetches)
OnCloseProject ==
    /\ state.active_project # "none"
    /\ Dispatch(UserMsg("CloseProject", NoUid, NoId, 0), {}, {}, MaxCmds, MaxFetches)
\* Database::connect answers, Ok or Err
OnDbLoaded ==
    \E m \in inbox, ok \in BOOLEAN :
        /\ m.type = "DbLoaded"
        /\ Dispatch([m EXCEPT !.ok = ok], {m}, {}, MaxCmds, MaxFetches)
OnInjectDemoData ==
    /\ state.active_project # "none"
    /\ Dispatch(UserMsg("InjectDemoData", "uA", NoId, 0), {}, {}, MaxCmds, MaxFetches)
OnActionDone ==
    \E m \in inbox :
        /\ m.type = "ActionDone"
        /\ Dispatch(m, {m}, {}, MaxCmds, MaxFetches)
OnUniversesFetched ==
    \E f \in fetching, ok \in BOOLEAN :
        /\ f.key = KeyUniversesList
        /\ Answer(f, ok, MaxCmds, MaxFetches)
OnBoardsFetched ==
    \E f \in fetching, ok \in BOOLEAN :
        /\ f.key = KeyBoardsList
        /\ Answer(f, ok, MaxCmds, MaxFetches)

Next ==
    \/ Tick
    \/ DbExecute
    \/ OnProjectsLoaded
    \/ OnWorkspaceOpen
    \/ OnCloseProject
    \/ OnDbLoaded
    \/ OnInjectDemoData
    \/ OnActionDone
    \/ OnUniversesFetched
    \/ OnBoardsFetched

Spec == Init /\ [][Next]_vars

-----------------------------------------------------------------------------
(* Configurations reached from Init by the dispatches listed *)

At(c, t) == [c EXCEPT !.now = t]
TheFetch(c, key) == CHOOSE f \in c.fetching : f.key = key
Answered(c, key, ok) ==
    Dispatched(c, Response(TheFetch(c, key), ok, <<>>), {}, {TheFetch(c, key)})
Delivered(c, type) ==
    LET m == CHOOSE x \in c.inbox : x.type = type
    IN Dispatched(c, m, {m}, {})
Read(c, key) ==
    LET f == TheFetch(c, key)
    IN [c EXCEPT !.fetching = @ \ {f},
                 !.inbox = @ \cup {Response(f, TRUE, DbFetch(c.store, f.key, f.uid))}]

\* the projects are listed, project p1 is opened and its database connected
Listed == Delivered(InitCfg, "ProjectsLoaded")
Chosen == Dispatched(Listed, UserMsg("WorkspaceOpen", "p1", NoId, 0), {}, {})
Opened == Delivered(Chosen, "DbLoaded")

\* ... and, one throttle period later, the Overview has its universes and boards
OverviewShown == Dispatched(At(Opened, TickMs), NavigateMsg(RouteOverview), {}, {})
UniversesLoaded == Answered(OverviewShown, KeyUniversesList, TRUE)
CoreLoaded == Answered(UniversesLoaded, KeyBoardsList, TRUE)

\* ... or, instead, The Forge is opened on universe uA and has its novels
ForgeShown == Dispatched(At(Opened, TickMs), UserMsg("ForgeOpen", "uA", NoId, 0), {}, {})
ForgeUniverses == Answered(ForgeShown, KeyUniversesList, TRUE)
NovelsRequested == Delivered(ForgeUniverses, "ForgeRequestLoadNovels")
NovelsLoaded == Delivered(Read(NovelsRequested, KeyNovels), "NovelsFetched")

\* ... and novel 1 is collapsed and expanded again, which loads its chapters
NovelCollapsed == Dispatched(NovelsLoaded, UserMsg("ToggleNovel", NoUid, 1, 0), {}, {})
NovelExpanded == Dispatched(NovelCollapsed, UserMsg("ToggleNovel", NoUid, 1, 0), {}, {})
ChaptersRequested == Delivered(NovelExpanded, "ForgeRequestLoadChapters")
ForgeLoaded == Delivered(Read(ChaptersRequested, KeyChapters(1)), "ForgeChaptersFetched")

-----------------------------------------------------------------------------
(* SpecCore: navigation between the scoped core views of an open project *)

CoreRoutes ==
    {Route("Bestiary", "uA"), Route("Bestiary", "uB"), Route("Timeline", "uA"),
     Route("UniverseDetail", "uA"), Route("PmBoard", "b1")}

OnNavigate ==
    /\ state.active_project # "none"
    /\ \E r \in CoreRoutes : Dispatch(NavigateMsg(r), {}, {}, MaxCoreCmds, MaxCoreFetches)
OnUniverseDelete ==
    /\ "uA" \in state.universes
    /\ Dispatch(UserMsg("UniverseDelete", "uA", NoId, 0), {}, {}, MaxCoreCmds, MaxCoreFetches)
OnConfirmDelete ==
    /\ state.pending_confirm # NoConfirm
    /\ Dispatch(UserMsg("ConfirmDelete", NoUid, NoId, 0), {}, {}, MaxCoreCmds, MaxCoreFetches)
OnActionDoneCore ==
    \E m \in inbox :
        /\ m.type = "ActionDone"
        /\ Dispatch(m, {m}, {}, MaxCoreCmds, MaxCoreFetches)
OnPmBoardFetched ==
    \E f \in fetching, ok \in BOOLEAN :
        /\ f.key.kind = "PmBoard"
        /\ Answer(f, ok, MaxCoreCmds, MaxCoreFetches)
OnCreaturesFetched ==
    \E f \in fetching, ok \in BOOLEAN :
        /\ f.key.kind = "Creatures"
        /\ Answer(f, ok, MaxCoreCmds, MaxCoreFetches)
OnLocationsFetched ==
    \E f \in fetching, ok \in BOOLEAN :
        /\ f.key.kind = "Locations"
        /\ Answer(f, ok, MaxCoreCmds, MaxCoreFetches)
OnTimelineFetched ==
    \E f \in fetching, ok \in BOOLEAN :
        /\ f.key.kind = "Timeline"
        /\ Answer(f, ok, MaxCoreCmds, MaxCoreFetches)
OnSnapshotsFetched ==
    \E f \in fetching, ok \in BOOLEAN :
        /\ f.key.kind = "Snapshots"
        /\ Answer(f, ok, MaxCoreCmds, MaxCoreFetches)

\* every step happens within the throttle period that follows the load of the
\* Overview: the clock stands at TickMs
InitCore == IsCfg(CoreLoaded)

NextCore ==
    \/ DbExecute
    \/ OnNavigate
    \/ OnUniverseDelete
    \/ OnConfirmDelete
    \/ OnActionDoneCore
    \/ OnPmBoardFetched
    \/ OnCreaturesFetched
    \/ OnLocationsFetched
    \/ OnTimelineFetched
    \/ OnSnapshotsFetched

SpecCore == InitCore /\ [][NextCore]_vars

-----------------------------------------------------------------------------
(* SpecForge: the outline and the editor of The Forge on universe uA *)

FreshSceneId == 2      \* the uuid CreateScene draws

OnToggleNovel ==
    \E n \in Ids(state.novels) :
        Dispatch(UserMsg("ToggleNovel", NoUid, n, 0), {}, {}, MaxForgeCmds, MaxForgeFetches)
OnToggleChapter ==
    \E c \in Ids(state.active_novel_chapters) :
        Dispatch(UserMsg("ToggleChapter", NoUid, c, 0), {}, {}, MaxForgeCmds, MaxForgeFetches)
OnCreateScene ==
    \E c \in Ids(state.active_novel_chapters) :
        /\ ~Contains(Entry(state.scenes_by_chapter_id, c), FreshSceneId)
        /\ \A e \in store.scenes : e.id # FreshSceneId
        /\ Dispatch(UserMsg("CreateScene", NoUid, c, FreshSceneId), {}, {},
                    MaxForgeCmds, MaxForgeFetches)
\* the editor is shown for the active scene
OnSceneBodyChanged ==
    /\ state.active_scene_id # NoId
    /\ Dispatch(UserMsg("SceneBodyChanged", NoUid, NoId, 1), {}, {},
                MaxForgeCmds, MaxForgeFetches)
\* debounce_save has slept AUTOSAVE_DELAY_MS
OnDebounceComplete ==
    \E m \in inbox :
        /\ m.type = "DebounceComplete" /\ m.tag <= now
        /\ Dispatch(m, {m}, {}, MaxForgeCmds, MaxForgeFetches)
OnActionDoneForge ==
    \E m \in inbox :
        /\ m.type = "ActionDone"
        /\ Dispatch(m, {m}, {}, MaxForgeCmds, MaxForgeFetches)
OnForgeRequestLoadChapters ==
    \E m \in inbox :
        /\ m.type = "ForgeRequestLoadChapters"
        /\ Dispatch(m, {m}, {}, MaxForgeCmds, MaxForgeFetches)
OnForgeRequestLoadScenes ==
    \E m \in inbox :
        /\ m.type = "ForgeRequestLoadScenes"
        /\ Dispatch(m, {m}, {}, MaxForgeCmds, MaxForgeFetches)
OnForgeChaptersFetched ==
    \E m \in inbox :
        /\ m.type = "ForgeChaptersFetched"
        /\ Dispatch(m, {m}, {}, MaxForgeCmds, MaxForgeFetches)
OnForgeScenesFetched ==
    \E m \in inbox :
        /\ m.type = "ForgeScenesFetched"
        /\ Dispatch(m, {m}, {}, MaxForgeCmds, MaxForgeFetches)

InitForge == IsCfg(ForgeLoaded)

NextForge ==
    \/ Tick
    \/ DbExecute
    \/ DbRead
    \/ OnToggleNovel
    \/ OnToggleChapter
    \/ OnCreateScene
    \/ OnSceneBodyChanged
    \/ OnDebounceComplete
    \/ OnActionDoneForge
    \/ OnForgeRequestLoadChapters
    \/ OnForgeRequestLoadScenes
    \/ OnForgeChaptersFetched
    \/ OnForgeScenesFetched

SpecForge == InitForge /\ [][NextForge]_vars

-----------------------------------------------------------------------------
(* SpecLedger: the begin and end functions of the Load Ledger, called in   *)
(* any order on The Forge, before and after its novels are loaded          *)

MaxLedgerNow == 2400     \* the clock of SpecLedger stops here

\* the clock advances, far enough for a throttle to elapse after a begin
LedgerTick ==
    /\ now + TickMs <= MaxLedgerNow
    /\ now' = now + TickMs
    /\ UNCHANGED <<state, db, store, executing, fetching, inbox, issued, completed, begun, last>>

\* a configuration between two runs of App::update, with nothing scheduled
Idle(c) == [c EXCEPT !.inbox = {}, !.last = NoCall]

\* what a core_try_begin_* call for key leaves behind
Begun(b, name, key) ==
    /\ state' = b.s
    /\ begun' = [begun EXCEPT ![key] = IF b.ok THEN @ + 1 ELSE @]
    /\ last' = Call(name, key, b.ok, <<>>)
    /\ UNCHANGED <<db, store, executing, fetching, inbox, now, issued, completed>>

CallTryBeginGlobal ==
    \E last_reload \in {0, now} :
        Begun(core_try_begin_global_load(state, KeyUniversesList, last_reload,
                                         CORE_THROTTLE_MS, now),
              "core_try_begin_global_load", KeyUniversesList)

CallTryBeginScoped ==
    \E loaded_for \in {EmptyMap, MapInsert(EmptyMap, "uA", 0), MapInsert(EmptyMap, "uA", now)} :
        Begun(core_try_begin_scoped_load(state, KeyCreatures("uA"), loaded_for, "uA",
                                         CORE_THROTTLE_MS, now),
              "core_try_begin_scoped_load", KeyCreatures("uA"))

\* what a load_*_if_needed call for key leaves behind
Loaded(r, name, key) ==
    /\ state' = r.s
    /\ begun' = [begun EXCEPT ![key] = IF Fetches(r.tasks) # {} THEN @ + 1 ELSE @]
    /\ last' = Call(name, key, Fetches(r.tasks) # {}, <<>>)
    /\ UNCHANGED <<db, store, executing, fetching, inbox, now, issued, completed>>

CallLoadNovels ==
    /\ Len(state.novels) = 0
    /\ Loaded(load_novels_if_needed(state, now), "load_novels_if_needed", KeyNovels)
CallLoadChapters ==
    /\ state.active_novel_id = 1
    /\ Loaded(load_chapters_if_needed(state, 1, now), "load_chapters_if_needed", KeyChapters(1))
CallLoadScenes ==
    /\ state.active_chapter_id = 1
    /\ Loaded(load_scenes_if_needed(state, 1, now), "load_scenes_if_needed", KeyScenes(1))

\* what the end of the load of key leaves behind
Ended(s, name, key, ok) ==
    /\ state' = s
    /\ begun' = [begun EXCEPT ![key] = 0]
    /\ last' = Call(name, key, ok, <<>>)
    /\ UNCHANGED <<db, store, executing, fetching, inbox, now, issued, completed>>

CallUniversesFetched ==
    /\ KeyUniversesList \in state.core_loading_in_progress
    /\ \E ok \in BOOLEAN :
            Ended(UniversesFetched(Fresh(state), ok), "UniversesFetched", KeyUniversesList, ok)
CallCreaturesFetched ==
    /\ KeyCreatures("uA") \in state.core_loading_in_progress
    /\ \E ok \in BOOLEAN :
            Ended(CreaturesFetched(Fresh(state), "uA", ok, now), "CreaturesFetched",
                  KeyCreatures("uA"), ok)
CallMarkNovels ==
    /\ KeyNovels \in state.forge_loading_in_progress
    /\ Ended(mark_novels_load_finished(Fresh(state)), "mark_novels_load_finished",
             KeyNovels, TRUE)
CallMarkChapters ==
    /\ KeyChapters(1) \in state.forge_loading_in_progress
    /\ Ended(mark_chapters_load_finished(Fresh(state), 1, now), "mark_chapters_load_finished",
             KeyChapters(1), TRUE)
CallMarkScenes ==
    /\ KeyScenes(1) \in state.forge_loading_in_progress
    /\ Ended(mark_scenes_load_finished(Fresh(state), 1, now), "mark_scenes_load_finished",
             KeyScenes(1), TRUE)

InitLedger == IsCfg(Idle(ForgeUniverses)) \/ IsCfg(Idle(ForgeLoaded))

NextLedger ==
    \/ LedgerTick
    \/ CallTryBeginGlobal
    \/ CallTryBeginScoped
    \/ CallLoadNovels
    \/ CallLoadChapters
    \/ CallLoadScenes
    \/ CallUniversesFetched
    \/ CallCreaturesFetched
    \/ CallMarkNovels
    \/ CallMarkChapters
    \/ CallMarkScenes

SpecLedger == InitLedger /\ [][NextLedger]_vars

-----------------------------------------------------------------------------
(* SpecMerge: handle_forge_chapters_fetched and handle_scenes_fetched      *)
(* applied once to a fetched list and a tree entry, both drawn             *)

MaxMergeId == 3          \* the entities merged have ids 1..MaxMergeId
MaxVersion == 2          \* and a title or body 1..MaxVersion
MaxListLen == 2          \* the lists drawn have at most MaxListLen entities

\* an entity of novel 1 (a chapter) or of chapter 1 (a scene)
MergeEnts == {Ent(i, 1, v) : i \in 1..MaxMergeId, v \in 1..MaxVersion}
\* the lists of at most MaxListLen entities with different ids
MergeLists ==
    UNION {{l \in [1..n -> MergeEnts] : \A i, j \in 1..n : i # j => l[i].id # l[j].id} :
             n \in 0..MaxListLen}
\* the tree holds list for parent 1 in both maps, or no entry at all
WithLocal(c, list, present) ==
    [c EXCEPT !.state.chapters_by_novel_id = IF present THEN MapInsert(EmptyMap, 1, list)
                                             ELSE EmptyMap,
              !.state.scenes_by_chapter_id = IF present THEN MapInsert(EmptyMap, 1, list)
                                             ELSE EmptyMap]

CallChaptersFetched ==
    /\ last = NoCall
    /\ \E chapters \in MergeLists :
            /\ state' = handle_forge_chapters_fetched(Fresh(state), 1, TRUE, chapters, now)
            /\ last' = Call("handle_forge_chapters_fetched", KeyChapters(1), TRUE, chapters)
    /\ UNCHANGED <<db, store, executing, fetching, inbox, now, issued, completed, begun>>

CallScenesFetched ==
    /\ last = NoCall
    /\ \E scenes \in MergeLists :
            /\ state' = handle_scenes_fetched(Fresh(state), 1, TRUE, scenes, now)
            /\ last' = Call("handle_scenes_fetched", KeyScenes(1), TRUE, scenes)
    /\ UNCHANGED <<db, store, executing, fetching, inbox, now, issued, completed, begun>>

InitMerge ==
    \E list \in MergeLists, present \in BOOLEAN :
        /\ present \/ list = <<>>
        /\ IsCfg(WithLocal(Idle(ForgeLoaded), list, present))

NextMerge ==
    \/ CallChaptersFetched
    \/ CallScenesFetched

SpecMerge == InitMerge /\ [][NextMerge]_vars

-----------------------------------------------------------------------------
(* SpecFallback: ensure_forge_safe_fallback applied to a drawn selection   *)

FallbackNovels == {<<>>, <<Ent(1, 0, 1), Ent(2, 0, 1)>>}
FallbackLists == {<<>>, <<Ent(1, 1, 1)>>, <<Ent(2, 1, 1), Ent(1, 1, 1)>>}
FallbackTrees == {EmptyMap, MapInsert(EmptyMap, 1, <<Ent(1, 1, 1), Ent(2, 1, 1)>>),
                  MapInsert(EmptyMap, 2, <<Ent(3, 2, 1)>>)}
FallbackIds == {NoId, 1, 3}

\* the Forge selection of c replaced by the one drawn; dirty: an edit awaits
\* its autosave
WithSelection(c, route, novels, sel, lists, trees, dirty) ==
    [c EXCEPT !.state.route = route,
              !.state.novels = novels,
              !.state.active_novel_id = sel[1],
              !.state.active_chapter_id = sel[2],
              !.state.active_scene_id = sel[3],
              !.state.active_novel_chapters = lists[1],
              !.state.active_chapter_scenes = lists[2],
              !.state.chapters_by_novel_id = trees[1],
              !.state.scenes_by_chapter_id = trees[2],
              !.state.expanded_novels = {},
              !.state.expanded_chapters = {},
              !.state.forge_content = IF dirty THEN 1 ELSE 0,
              !.state.forge_last_edit = IF dirty THEN c.now ELSE NoInstant,
              !.state.forge_debounce_task_id = IF dirty THEN 1 ELSE NoId]

CallFallback ==
    /\ state' = ensure_forge_safe_fallback(state)
    /\ last' = Call("ensure_forge_safe_fallback", NoKey, TRUE, <<>>)
    /\ UNCHANGED <<db, store, executing, fetching, inbox, now, issued, completed, begun>>

InitFallback ==
    \E route \in {RouteForge, RouteOverview}, novels \in FallbackNovels,
       sel \in FallbackIds \X FallbackIds \X FallbackIds,
       lists \in FallbackLists \X FallbackLists,
       trees \in FallbackTrees \X FallbackTrees, dirty \in BOOLEAN :
        IsCfg(WithSelection(Idle(ForgeLoaded), route, novels, sel, lists, trees, dirty))

NextFallback == CallFallback

SpecFallback == InitFallback /\ [][NextFallback]_vars

-----------------------------------------------------------------------------
(* SpecDone: a command of each kind is in flight, alone or with a second   *)
(* command queued behind it; it executes and its ActionDone is handled     *)

MaxDoneCmds == 2        \* commands enqueued
MaxDoneFetches == 8     \* fetch tasks started

\* ... or, instead of the Overview, the Bestiary of uA is shown and loaded
BestiaryShown == Dispatched(CoreLoaded, NavigateMsg(Route("Bestiary", "uA")), {}, {})
BestiaryLoaded == Answered(BestiaryShown, KeyCreatures("uA"), TRUE)

DoneActions ==
    {Action("CreateUniverse", "uB", "universe", NoId, NoId, 0, 0),
     Action("MoveToTrash", "uA", "universe", NoId, NoId, 0, 0),
     Action("CreateBoard", "b2", "board", NoId, NoId, 0, 0),
     Action("MoveToTrash", "b1", "board", NoId, NoId, 0, 0),
     Action("InjectDemoData", "uA", "none", NoId, NoId, 0, 0),
     Action("SaveCreature", "uA", "creature", NoId, NoId, 0, 0),
     Action("ArchiveCreature", NoUid, "creature", NoId, NoId, 0, 0),
     Action("SaveLocation", "uA", "location", NoId, NoId, 0, 0),
     Action("CreateNovel", "uA", "novel", 2, NoId, 0, 0),
     Action("CreateChapter", NoUid, "chapter", 2, 1, 0, 0),
     Action("CreateScene", NoUid, "scene", 2, 1, 0, 0),
     Action("UpdateScene", NoUid, "scene", 1, 1, 1, 0),
     Action("ReorderScene", NoUid, "scene", 1, 1, 0, 0),
     Action("MoveToTrash", NoUid, "novel", 1, NoId, 0, 0),
     Action("MoveToTrash", NoUid, "chapter", 1, 1, 0, 0),
     Action("MoveToTrash", NoUid, "scene", 1, 1, 0, 0),
     Action("RestoreFromTrash", NoUid, "trash", 1, NoId, 0, 0),
     Action("PermanentDelete", NoUid, "trash", 1, NoId, 0, 0),
     Action("EmptyTrash", NoUid, "trash", NoId, NoId, 0, 0)}

\* the commands whose arm of handle_action_done has the trash list or the
\* outline of The Forge as its scope
ForgeAndTrashCommands ==
    {a \in DoneActions :
        \/ a.type \in {"CreateNovel", "CreateChapter", "CreateScene", "UpdateScene",
                       "ReorderScene", "PermanentDelete", "EmptyTrash"}
        \/ a.type = "MoveToTrash" /\ a.target \in ForgeTargets}

\* configuration c with command a dequeued and executing, and the commands
\* of behind queued after it
WithInflight(c, a, behind) ==
    [Idle(c) EXCEPT
        !.state.db_inflight = [a EXCEPT !.seq = 1],
        !.state.db_queue = [i \in DOMAIN behind |-> [behind[i] EXCEPT !.seq = i + 1]],
        !.state.enq = 1 + Len(behind),
        !.executing = {[a EXCEPT !.seq = 1]}]

\* the ActionDone of a command is handled; e is the text of its Err
OnActionDoneNoted ==
    \E m \in inbox, e \in ErrorTexts :
        /\ m.type = "ActionDone"
        /\ Bounded([Dispatched(Cur, m, {m}, {}) EXCEPT
                       !.last = Call("ActionDone", NoKey, m.ok,
                                     [inflight |-> state.db_inflight, error |-> e,
                                      toasts |-> ActionDoneToasts(state.db_inflight, m.ok, e)])],
                   MaxDoneCmds, MaxDoneFetches)

InitDone ==
    \E c \in {BestiaryLoaded, ForgeLoaded}, a \in DoneActions :
        \E behind \in {<<>>} \cup {<<b>> : b \in {x \in DoneActions :
                                                   x.type \in {"UpdateScene", "EmptyTrash"}}} :
            IsCfg(WithInflight(c, a, behind))

NextDone ==
    \/ DbExecute
    \/ OnActionDoneNoted

SpecDone == InitDone /\ [][NextDone]_vars

-----------------------------------------------------------------------------
(* SpecStore: db_controller::execute, called with trash commands on a      *)
(* Data Store of one novel, two chapters and three scenes                  *)

MaxStoreCmds == 4       \* commands executed

TrashStore ==
    [novels |-> <<Ent(1, NoId, 0)>>,
     chapters |-> {Ent(1, 1, 0), Ent(2, 1, 0)},
     scenes |-> {Ent(1, 1, 0), Ent(2, 1, 1), Ent(3, 2, 0)},
     trash |-> {},
     cards |-> <<>>]

\* MoveToTrash of a row of the store, its payload the row itself
TrashCommand(target, e) == Action("MoveToTrash", NoUid, target, e.id, e.parent, e.v, 0)

\* what execute leaves and returns for command a, the next command enqueued
Executed(a, fails, audit_ok) ==
    /\ state.enq < MaxStoreCmds
    /\ store' = execute(store, [a EXCEPT !.seq = state.enq + 1], fails, audit_ok).st
    /\ state' = [state EXCEPT !.enq = @ + 1]
    /\ last' = Call("execute", NoKey,
                    execute(store, [a EXCEPT !.seq = state.enq + 1], fails, audit_ok).ok,
                    [cmd |-> [a EXCEPT !.seq = state.enq + 1], fails |-> fails,
                     audit_ok |-> audit_ok,
                     audit |-> execute(store, [a EXCEPT !.seq = state.enq + 1],
                                       fails, audit_ok).audit])
    /\ UNCHANGED <<db, executing, fetching, inbox, now, issued, completed, begun>>

ExecMoveSceneToTrash ==
    \E e \in store.scenes, fails \in BOOLEAN, audit_ok \in BOOLEAN :
        Executed(TrashCommand("scene", e), fails, audit_ok)
ExecMoveChapterToTrash ==
    \E e \in store.chapters, fails \in BOOLEAN, audit_ok \in BOOLEAN :
        Executed(TrashCommand("chapter", e), fails, audit_ok)
ExecMoveNovelToTrash ==
    \E i \in DOMAIN store.novels, fails \in BOOLEAN, audit_ok \in BOOLEAN :
        Executed(TrashCommand("novel", store.novels[i]), fails, audit_ok)
ExecRestoreFromTrash ==
    \E e \in store.trash, fails \in BOOLEAN, audit_ok \in BOOLEAN :
        Executed(Action("RestoreFromTrash", NoUid, "trash", e.id, NoId, 0, 0), fails, audit_ok)
ExecPermanentDelete ==
    \E e \in store.trash, fails \in BOOLEAN, audit_ok \in BOOLEAN :
        Executed(Action("PermanentDelete", NoUid, "trash", e.id, NoId, 0, 0), fails, audit_ok)
ExecEmptyTrash ==
    /\ store.trash # {}
    /\ \E fails \in BOOLEAN, audit_ok \in BOOLEAN :
          Executed(Action("EmptyTrash", NoUid, "trash", NoId, NoId, 0, 0), fails, audit_ok)
ExecUpdateScene ==
    \E e \in store.scenes, fails \in BOOLEAN, audit_ok \in BOOLEAN :
        Executed(UpdateSceneAction([e EXCEPT !.v = 2]), fails, audit_ok)

InitStoreCalls == IsCfg([Idle(ForgeLoaded) EXCEPT !.store = TrashStore])

NextStore ==
    \/ ExecMoveSceneToTrash
    \/ ExecMoveChapterToTrash
    \/ ExecMoveNovelToTrash
    \/ ExecRestoreFromTrash
    \/ ExecPermanentDelete
    \/ ExecEmptyTrash
    \/ ExecUpdateScene

SpecStore == InitStoreCalls /\ [][NextStore]_vars

-----------------------------------------------------------------------------
(* SpecTrash: novels, chapters and scenes of The Forge are deleted from    *)
(* the outline while chapters are toggled and their scenes fetched         *)

MaxTrashCmds == 2        \* commands enqueued
MaxTrashFetches == 5     \* fetch tasks started, the four of the initial outline included

\* The Forge on the store of SpecStore: the novels and the chapters of novel 1
\* are loaded ...
OutlineNovels ==
    Delivered(Read(Delivered([ForgeUniverses EXCEPT !.store = TrashStore],
                             "ForgeRequestLoadNovels"),
                   KeyNovels),
              "NovelsFetched")
OutlineChapters ==
    Delivered(
        Read(Delivered(
                 Dispatched(Dispatched(OutlineNovels,
                                       UserMsg("ToggleNovel", NoUid, 1, 0), {}, {}),
                            UserMsg("ToggleNovel", NoUid, 1, 0), {}, {}),
                 "ForgeRequestLoadChapters"),
             KeyChapters(1)),
        "ForgeChaptersFetched")
\* ... and, one throttle period later, chapter 1 is expanded, its scenes are
\* loaded and scene 1 is selected
OutlineScenes ==
    Delivered(
        Read(Delivered(
                 Dispatched(Dispatched(At(OutlineChapters, 2 * TickMs),
                                       UserMsg("ToggleChapter", NoUid, 1, 0), {}, {}),
                            UserMsg("ToggleChapter", NoUid, 1, 0), {}, {}),
                 "ForgeRequestLoadScenes"),
             KeyScenes(1)),
        "ForgeScenesFetched")
\* ... which leaves scene 1, the first of the chapter, selected
SceneSelected == Idle(OutlineScenes)

TrashDispatch(msg, from_inbox) ==
    Dispatch(msg, from_inbox, {}, MaxTrashCmds, MaxTrashFetches)

\* the scenes and the chapters the outline shows
ShownScenes(s) ==
    Ids(s.active_chapter_scenes)
        \cup UNION {Ids(s.scenes_by_chapter_id[k]) : k \in DOMAIN s.scenes_by_chapter_id}
ShownChapters(s) ==
    Ids(s.active_novel_chapters)
        \cup UNION {Ids(s.chapters_by_novel_id[k]) : k \in DOMAIN s.chapters_by_novel_id}

\* the confirmation dialog is modal: nothing is deleted while one is open
OnDeleteScene ==
    /\ state.pending_confirm = NoConfirm
    /\ \E x \in ShownScenes(state) : TrashDispatch(UserMsg("DeleteScene", NoUid, x, 0), {})
OnDeleteChapter ==
    /\ state.pending_confirm = NoConfirm
    /\ \E c \in ShownChapters(state) : TrashDispatch(UserMsg("DeleteChapter", NoUid, c, 0), {})
OnDeleteNovel ==
    /\ state.pending_confirm = NoConfirm
    /\ \E n \in Ids(state.novels) : TrashDispatch(UserMsg("DeleteNovel", NoUid, n, 0), {})
\* the deletion is confirmed; last keeps what was confirmed and the scene,
\* chapter and novel that were active
OnConfirmDeleteNoted ==
    /\ state.pending_confirm # NoConfirm
    /\ Bounded([Dispatched(Cur, UserMsg("ConfirmDelete", NoUid, NoId, 0), {}, {}) EXCEPT
                   !.last = Call("ConfirmDelete", NoKey, TRUE,
                                 [confirm |-> state.pending_confirm,
                                  scene |-> state.active_scene_id])],
               MaxTrashCmds, MaxTrashFetches)
\* the ActionDone of a command is handled; last keeps the command
OnTrashActionDone ==
    \E m \in inbox :
        /\ m.type = "ActionDone"
        /\ Bounded([Dispatched(Cur, m, {m}, {}) EXCEPT
                       !.last = Call("ActionDone", NoKey, m.ok,
                                     [inflight |-> state.db_inflight])],
                   MaxTrashCmds, MaxTrashFetches)
OnTrashToggleChapter ==
    /\ state.pending_confirm = NoConfirm
    /\ \E c \in ShownChapters(state) : TrashDispatch(UserMsg("ToggleChapter", NoUid, c, 0), {})
OnTrashRequestLoadScenes ==
    \E m \in inbox :
        /\ m.type = "ForgeRequestLoadScenes"
        /\ TrashDispatch(m, {m})
OnTrashScenesFetched ==
    \E m \in inbox :
        /\ m.type = "ForgeScenesFetched"
        /\ TrashDispatch(m, {m})

InitTrash == IsCfg(SceneSelected)

NextTrash ==
    \/ DbExecute
    \/ DbRead
    \/ OnDeleteScene
    \/ OnDeleteChapter
    \/ OnDeleteNovel
    \/ OnConfirmDeleteNoted
    \/ OnTrashActionDone
    \/ OnTrashToggleChapter
    \/ OnTrashRequestLoadScenes
    \/ OnTrashScenesFetched

SpecTrash == InitTrash /\ [][NextTrash]_vars

-----------------------------------------------------------------------------
(* SpecRestore: the selected scene is edited and saved, scenes are moved   *)
(* to the trash and restored from it                                       *)

MaxRestoreCmds == 3      \* commands enqueued

RestoreDispatch(msg, from_inbox) ==
    Dispatch(msg, from_inbox, {}, MaxRestoreCmds, MaxTrashFetches)

OnEditScene ==
    /\ state.active_scene_id # NoId
    /\ state.pending_confirm = NoConfirm
    /\ RestoreDispatch(UserMsg("SceneBodyChanged", NoUid, NoId, 2), {})
OnSaveCurrentScene ==
    /\ state.active_scene_id # NoId
    /\ state.pending_confirm = NoConfirm
    /\ RestoreDispatch(UserMsg("SaveCurrentScene", NoUid, NoId, 0), {})
OnRestoreDeleteScene ==
    /\ state.pending_confirm = NoConfirm
    /\ \E x \in ShownScenes(state) : RestoreDispatch(UserMsg("DeleteScene", NoUid, x, 0), {})
OnRestoreConfirmDelete ==
    /\ state.pending_confirm # NoConfirm
    /\ RestoreDispatch(UserMsg("ConfirmDelete", NoUid, NoId, 0), {})
OnRestoreActionDone ==
    \E m \in inbox :
        /\ m.type = "ActionDone"
        /\ RestoreDispatch(m, {m})
\* the Trash page lists the entries of the store
OnRestoreFromTrash ==
    /\ state.pending_confirm = NoConfirm
    /\ \E e \in store.trash : RestoreDispatch(UserMsg("RestoreFromTrash", NoUid, e.id, 0), {})

NextRestore ==
    \/ DbExecute
    \/ OnEditScene
    \/ OnSaveCurrentScene
    \/ OnRestoreDeleteScene
    \/ OnRestoreConfirmDelete
    \/ OnRestoreActionDone
    \/ OnRestoreFromTrash

SpecRestore == InitTrash /\ [][NextRestore]_vars

-----------------------------------------------------------------------------
(* pm_controller (src/src/controllers/pm_controller.rs): dragging a card   *)
(* of the kanban board.  data stands for the cards pm_data holds.          *)

MoveCardAction(card_id, column_id, pos) ==
    Action("MoveCard", NoUid, "card", card_id, column_id, pos, 0)
RebalanceColumnAction(column_id) ==
    Action("RebalanceColumn", NoUid, "board_column", column_id, NoId, 0, 0)

\* PmMessage::DragStart, the first click on a card (pm_controller.rs:143-156)
DragStart(s, data, card_id) ==
    IF s.pm_data # NoPmData /\ Contains(data, card_id)
    THEN [s EXCEPT !.pm_state = Dragging(card_id, Find(data, card_id).column_id, FALSE)]
    ELSE s

\* handle_mouse_moved (pm_controller.rs:283-310); far: the cursor is more
\* than 10 px from where the drag started
handle_mouse_moved(s, far) ==
    IF s.pm_state # NoDrag /\ far THEN [s EXCEPT !.pm_state.active = TRUE] ELSE s

\* a faulty variant: a gap of 2 is taken for no room
DropPositionWideGap(cards, hover_id) ==
    IF hover_id # NoId /\ Contains(cards, hover_id)
    THEN LET idx == Min({i \in DOMAIN cards : cards[i].id = hover_id})
             neighbor_pos == cards[idx].position
             prev_pos == IF idx > 1 THEN cards[idx - 1].position ELSE 0
         IN IF neighbor_pos - prev_pos > 2
            THEN [new_pos |-> neighbor_pos - 1, needs_rebalance |-> FALSE]
            ELSE [new_pos |-> neighbor_pos + 1, needs_rebalance |-> TRUE]
    ELSE [new_pos |-> IF cards = <<>> THEN 1000 ELSE cards[Len(cards)].position + 1000,
          needs_rebalance |-> FALSE]


\* the position of the dropped card and whether the column needs a rebalance
\* (pm_controller.rs:337-367); cards is the target column as the board shows it
DropPosition(cards, hover_id) ==
    IF hover_id # NoId /\ Contains(cards, hover_id)
    THEN LET idx == Min({i \in DOMAIN cards : cards[i].id = hover_id})
             neighbor_pos == cards[idx].position
             prev_pos == IF idx > 1 THEN cards[idx - 1].position ELSE 0
         IN IF neighbor_pos - prev_pos > 1
            THEN [new_pos |-> neighbor_pos - 1, needs_rebalance |-> FALSE]
            ELSE [new_pos |-> neighbor_pos + 1, needs_rebalance |-> TRUE]
    ELSE [new_pos |-> IF cards = <<>> THEN 1000 ELSE cards[Len(cards)].position + 1000,
          needs_rebalance |-> FALSE]

\* a faulty variant: the card is moved and no rebalance is asked for
MouseReleasedWithoutRebalance(s, data) ==
    IF /\ s.pm_state # NoDrag /\ s.pm_state.active
       /\ s.hovered_column # NoId /\ s.hovered_column # s.pm_state.original_col
       /\ s.pm_data # NoPmData
    THEN [queue(s, MoveCardAction(s.pm_state.card_id, s.hovered_column,
                    DropPosition(ColumnCards(data, s.hovered_column),
                                 s.hovered_card).new_pos))
             EXCEPT !.pm_state = NoDrag]
    ELSE [s EXCEPT !.pm_state = NoDrag]

\* handle_mouse_released (pm_controller.rs:312-395)
handle_mouse_released(s, data) ==
    LET p == DropPosition(ColumnCards(data, s.hovered_column), s.hovered_card)
        moved == queue(s, MoveCardAction(s.pm_state.card_id, s.hovered_column, p.new_pos))
    IN IF /\ s.pm_state # NoDrag /\ s.pm_state.active
          /\ s.hovered_column # NoId /\ s.hovered_column # s.pm_state.original_col
          /\ s.pm_data # NoPmData
       THEN [(IF p.needs_rebalance
              THEN queue(moved, RebalanceColumnAction(s.hovered_column))
              ELSE moved) EXCEPT !.pm_state = NoDrag]
       ELSE [s EXCEPT !.pm_state = NoDrag]

-----------------------------------------------------------------------------
(* SpecKanban: cards of board b1 are dragged from one column to another;   *)
(* the commands queued by the drop execute one after the other.  The board *)
(* is reloaded after every command, so it shows the cards of the store.    *)

MaxKanbanCmds == 4       \* commands enqueued

Columns == {1, 2}
KanbanBoards ==
    {<<Card(1, 1, 0), Card(2, 2, 1000), Card(3, 2, 1001)>>,
     <<Card(1, 1, 0), Card(2, 2, 1001), Card(3, 2, 1000), Card(4, 2, 1002)>>,
     <<Card(1, 1, 0), Card(2, 2, 0), Card(3, 2, 1)>>,
     <<Card(1, 1, 1000), Card(2, 1, 2000), Card(3, 2, 1000), Card(4, 2, 2000)>>}

KanbanStep(s) ==
    /\ state' = s
    /\ UNCHANGED <<db, store, executing, fetching, inbox, now, issued, completed, begun, last>>

OnDragStart ==
    /\ state.pm_state = NoDrag
    /\ state.db_queue = <<>>
    /\ state.enq < MaxKanbanCmds - 1
    /\ \E c \in Ids(store.cards) : KanbanStep(DragStart(state, store.cards, c))
OnMouseMoved ==
    /\ state.pm_state # NoDrag
    /\ \E far \in BOOLEAN : KanbanStep(handle_mouse_moved(state, far))
OnColumnHovered ==
    /\ state.pm_state # NoDrag
    /\ \E c \in Columns : KanbanStep([state EXCEPT !.hovered_column = c])
OnCardHovered ==
    /\ state.pm_state # NoDrag
    /\ \E c \in Ids(store.cards) : KanbanStep([state EXCEPT !.hovered_card = c])
OnMouseReleased ==
    /\ state.pm_state # NoDrag
    /\ KanbanStep(handle_mouse_released(state, store.cards))

\* the command at the head of the queue is executed
KanbanExecute ==
    /\ state.db_queue # <<>>
    /\ state.pm_state = NoDrag
    /\ \E fails \in BOOLEAN :
        /\ store' = execute(store, Head(state.db_queue), fails, TRUE).st
        /\ last' = Call("execute", NoKey,
                        execute(store, Head(state.db_queue), fails, TRUE).ok,
                        [cmd |-> Head(state.db_queue), before |-> store.cards])
    /\ state' = [state EXCEPT !.db_queue = Tail(@)]
    /\ UNCHANGED <<db, executing, fetching, inbox, now, issued, completed, begun>>

InitKanban ==
    \E cards \in KanbanBoards :
        IsCfg([Idle(ForgeLoaded) EXCEPT !.store.cards = cards,
                                        !.state.pm_data = PmData("b1")])

NextKanban ==
    \/ OnDragStart
    \/ OnMouseMoved
    \/ OnColumnHovered
    \/ OnCardHovered
    \/ OnMouseReleased
    \/ KanbanExecute

SpecKanban == InitKanban /\ [][NextKanban]_vars

-----------------------------------------------------------------------------
(* SpecDebounce: the selected scene is edited several times, the clock     *)
(* advances in steps shorter than the debounce delay, and the              *)
(* DebounceComplete of each edit is handled once debounce_save has slept   *)

MaxBurstEdits == 3       \* editor changes between two resets of the debounce token
MaxBurstCmds == 1        \* commands enqueued
MaxBurstFetches == 5     \* fetch tasks started
BurstStepMs == 400       \* granularity of the clock
MaxBurstNow == 3600      \* the clock stops advancing here

BurstDispatch(msg, from_inbox) ==
    /\ Dispatched(Cur, msg, from_inbox, {}).state.enq <= MaxBurstCmds
    /\ Dispatched(Cur, msg, from_inbox, {}).issued <= MaxBurstFetches
    /\ Dispatched(Cur, msg, from_inbox, {}).state.forge_debounce_task_id <= MaxBurstEdits
    /\ SetAll(Dispatched(Cur, msg, from_inbox, {}))

BurstTick ==
    /\ now + BurstStepMs <= MaxBurstNow
    /\ now' = now + BurstStepMs
    /\ UNCHANGED <<state, db, store, executing, fetching, inbox, issued, completed, begun, last>>
OnBurstEdit ==
    /\ state.active_scene_id # NoId
    /\ \E text \in {1, 2} : BurstDispatch(UserMsg("SceneBodyChanged", NoUid, NoId, text), {})
OnBurstDebounceComplete ==
    \E m \in inbox :
        /\ m.type = "DebounceComplete" /\ m.tag <= now
        /\ BurstDispatch(m, {m})
OnBurstActionDone ==
    \E m \in inbox :
        /\ m.type = "ActionDone"
        /\ BurstDispatch(m, {m})

NextDebounce ==
    \/ BurstTick
    \/ OnBurstEdit
    \/ OnBurstDebounceComplete
    \/ DbExecute
    \/ OnBurstActionDone

SpecDebounce == InitTrash /\ [][NextDebounce]_vars

-----------------------------------------------------------------------------
(* SpecToasts: AppState::show_toast_internal, Message::Tick and            *)
(* Message::ToastDismiss applied to the toasts the previous call left;     *)
(* last.data holds the fields toasts and toast_counter of AppState         *)

MAX_TOASTS == 10
TOAST_TTL_SECS == 4

MaxToastsShown == 11     \* calls of show_toast
ToastStepMs == 2000      \* granularity of the clock
MaxToastNow == 6000      \* the clock stops advancing here

(* Toast (src/src/state.rs:168-175) as AppState::toasts holds it *)
ShownToast(id, toast, t) ==
    [id |-> id, kind |-> toast.kind, message |-> toast.message,
     created_at |-> t, ttl_secs |-> TOAST_TTL_SECS]

\* toasts.retain(|t| now.duration_since(t.created_at).as_secs() < t.ttl_secs)
Unexpired(toasts, t) ==
    SelectSeq(toasts, LAMBDA x : (t - x.created_at) \div 1000 < x.ttl_secs)

\* a faulty variant: the toasts beyond the bound are cut off at the new end
ShowToastKeepingOldest(toasts, counter, toast, t) ==
    [toasts |-> SubSeq(Append(Unexpired(toasts, t), ShownToast(counter + 1, toast, t)),
                       1, Min({MAX_TOASTS, Len(Unexpired(toasts, t)) + 1})),
     toast_counter |-> counter + 1]

\* AppState::show_toast_internal (src/src/state.rs:506-541)
show_toast_internal(toasts, counter, toast, t) ==
    [toasts |-> SubSeq(Append(Unexpired(toasts, t), ShownToast(counter + 1, toast, t)),
                       Max({1, Len(Unexpired(toasts, t)) + 2 - MAX_TOASTS}),
                       Len(Unexpired(toasts, t)) + 1),
     toast_counter |-> counter + 1]

ToastCall(name, data) ==
    /\ last' = Call(name, NoKey, TRUE, data)
    /\ UNCHANGED <<state, db, store, executing, fetching, inbox, now, issued, completed, begun>>

ToastClock ==
    /\ now + ToastStepMs <= MaxToastNow
    /\ now' = now + ToastStepMs
    /\ UNCHANGED <<state, db, store, executing, fetching, inbox, issued, completed, begun, last>>
CallShowToast ==
    /\ last.data.toast_counter < MaxToastsShown
    /\ ToastCall("show_toast",
                 show_toast_internal(last.data.toasts, last.data.toast_counter,
                                     Toast("Info", "Novel created"), now))
\* Message::Tick (messages_controller.rs:358-362)
CallToastTick ==
    /\ last.data.toasts # <<>>
    /\ ToastCall("Tick", [last.data EXCEPT !.toasts = Unexpired(@, now)])
\* Message::ToastDismiss (messages_controller.rs:364)
CallToastDismiss ==
    /\ last.data.toasts # <<>>
    /\ \E id \in Ids(last.data.toasts) :
          ToastCall("ToastDismiss",
                    [last.data EXCEPT !.toasts = SelectSeq(@, LAMBDA x : x.id # id)])

InitToasts ==
    IsCfg([Idle(ForgeLoaded) EXCEPT
             !.last = Call("none", NoKey, TRUE, [toasts |-> <<>>, toast_counter |-> 0])])

NextToasts ==
    \/ ToastClock
    \/ CallShowToast
    \/ CallToastTick
    \/ CallToastDismiss

SpecToasts == InitToasts /\ [][NextToasts]_vars

-----------------------------------------------------------------------------
(* SpecSelect: two novels in the outline of The Forge; novels, chapters    *)
(* and scenes are selected and toggled, and their lists fetched            *)

MaxSelectCmds == 1       \* commands enqueued
MaxSelectFetches == 5    \* fetch tasks started, the four of the initial outline included

SelectStore ==
    [novels |-> <<Ent(2, NoId, 0), Ent(1, NoId, 0)>>,
     chapters |-> {Ent(1, 1, 0), Ent(2, 2, 0)},
     scenes |-> {Ent(1, 1, 0), Ent(2, 2, 0)},
     trash |-> {},
     cards |-> <<>>]

\* The Forge on SelectStore: the novels are loaded, novel 1 is collapsed and
\* expanded, which loads its chapters, and one throttle period later chapter
\* 1 is collapsed and expanded, which loads its scenes
SelectNovels ==
    Delivered(Read(Delivered([ForgeUniverses EXCEPT !.store = SelectStore],
                             "ForgeRequestLoadNovels"),
                   KeyNovels),
              "NovelsFetched")
SelectNovelToggled ==
    Dispatched(Dispatched(SelectNovels, UserMsg("ToggleNovel", NoUid, 1, 0), {}, {}),
               UserMsg("ToggleNovel", NoUid, 1, 0), {}, {})
SelectChapters ==
    Delivered(Read(Delivered(SelectNovelToggled, "ForgeRequestLoadChapters"), KeyChapters(1)),
              "ForgeChaptersFetched")
SelectChapterToggled ==
    Dispatched(Dispatched(At(SelectChapters, 2 * TickMs),
                          UserMsg("ToggleChapter", NoUid, 1, 0), {}, {}),
               UserMsg("ToggleChapter", NoUid, 1, 0), {}, {})
SelectScenes ==
    Delivered(Read(Delivered(SelectChapterToggled, "ForgeRequestLoadScenes"), KeyScenes(1)),
              "ForgeScenesFetched")

SelectDispatch(msg, from_inbox) ==
    Dispatch(msg, from_inbox, {}, MaxSelectCmds, MaxSelectFetches)

OnSelectNovel ==
    \E n \in Ids(state.novels) : SelectDispatch(UserMsg("SelectNovel", NoUid, n, 0), {})
OnSelectChapter ==
    \E c \in ShownChapters(state) : SelectDispatch(UserMsg("SelectChapter", NoUid, c, 0), {})
OnSelectScene ==
    \E x \in ShownScenes(state) : SelectDispatch(UserMsg("SelectScene", NoUid, x, 0), {})
OnSelectToggleNovel ==
    \E n \in Ids(state.novels) : SelectDispatch(UserMsg("ToggleNovel", NoUid, n, 0), {})
OnSelectToggleChapter ==
    \E c \in ShownChapters(state) : SelectDispatch(UserMsg("ToggleChapter", NoUid, c, 0), {})
OnSelectRequestLoad ==
    \E m \in inbox :
        /\ m.type \in {"ForgeRequestLoadChapters", "ForgeRequestLoadScenes"}
        /\ SelectDispatch(m, {m})
OnSelectFetched ==
    \E m \in inbox :
        /\ m.type \in {"ForgeChaptersFetched", "ForgeScenesFetched"}
        /\ SelectDispatch(m, {m})

InitSelect == IsCfg(Idle(SelectScenes))

NextSelect ==
    \/ DbRead
    \/ OnSelectNovel
    \/ OnSelectChapter
    \/ OnSelectScene
    \/ OnSelectToggleNovel
    \/ OnSelectToggleChapter
    \/ OnSelectRequestLoad
    \/ OnSelectFetched

SpecSelect == InitSelect /\ [][NextSelect]_vars

-----------------------------------------------------------------------------
(* SpecInvalidate: the invalidations of forge_data_controller.rs called    *)
(* between the loads and the load ends of the Forge ledger                 *)

MaxInvalidateNow == 3200     \* the clock of SpecInvalidate stops here
InvalidateIds == {1, 2}      \* the novels and the chapters invalidated

InvalidateTick ==
    /\ now + TickMs <= MaxInvalidateNow
    /\ now' = now + TickMs
    /\ UNCHANGED <<state, db, store, executing, fetching, inbox, issued, completed, begun, last>>

\* an invalidation releases the gating entry of its key
CallInvalidateNovels ==
    /\ state.route = RouteForge
    /\ Ended(invalidate_novels_cache(state, now), "invalidate_novels_cache", KeyNovels, TRUE)
CallInvalidateChapters ==
    \E n \in InvalidateIds :
        /\ state.route = RouteForge
        /\ Ended(invalidate_chapters_cache(state, n, now), "invalidate_chapters_cache",
                 KeyChapters(n), TRUE)
CallInvalidateScenes ==
    \E c \in InvalidateIds :
        /\ state.route = RouteForge
        /\ Ended(invalidate_scenes_cache(state, c, now), "invalidate_scenes_cache",
                 KeyScenes(c), TRUE)

InitInvalidate == IsCfg(Idle(ForgeUniverses)) \/ IsCfg(Idle(SelectScenes))

NextInvalidate ==
    \/ InvalidateTick
    \/ CallLoadNovels
    \/ CallLoadChapters
    \/ CallLoadScenes
    \/ CallMarkNovels
    \/ CallMarkChapters
    \/ CallMarkScenes
    \/ CallInvalidateNovels
    \/ CallInvalidateChapters
    \/ CallInvalidateScenes

SpecInvalidate == InitInvalidate /\ [][NextInvalidate]_vars

-----------------------------------------------------------------------------
(* SpecRoute: the Bestiary of each universe and the Overview are shown in  *)
(* turn; the Data Store answers every fetch, no command is queued, the     *)
(* clock runs and events keep being processed                              *)

MaxRouteNow == 3200      \* the clock of SpecRoute stops here

\* one run of App::update; the fetches started are not counted
RouteStep(msg, from_fetch) ==
    \E c \in {Dispatched(Cur, msg, {}, from_fetch)} : SetAll([c EXCEPT !.issued = issued])

RouteClock ==
    /\ now + TickMs <= MaxRouteNow
    /\ now' = now + TickMs
    /\ UNCHANGED <<state, db, store, executing, fetching, inbox, issued, completed, begun, last>>

\* the route changes while the clock still runs
RouteNavigate ==
    /\ now + TickMs <= MaxRouteNow
    /\ \E r \in {Route("Bestiary", "uA"), Route("Bestiary", "uB"), RouteOverview} :
          /\ r # state.route
          /\ RouteStep(NavigateMsg(r), {})

\* an event no handler reads is processed: only the passes of App::update run
RouteEvent ==
    /\ state.active_project # "none"
    /\ RouteStep(UserMsg("Tick", NoUid, NoId, 0), {})

\* the Data Store answers a fetch
RouteFetched ==
    \E f \in fetching : RouteStep(Response(f, TRUE, <<>>), {f})

InitRoute == IsCfg(CoreLoaded)

NextRoute ==
    \/ RouteClock
    \/ RouteNavigate
    \/ RouteEvent
    \/ RouteFetched

SpecRoute == InitRoute /\ [][NextRoute]_vars

\* processing an event would change nothing: ~ENABLED <<RouteEvent>>_vars
RouteEventIdle ==
    \/ state.active_project = "none"
    \/ [Dispatched(Cur, UserMsg("Tick", NoUid, NoId, 0), {}, {}) EXCEPT !.issued = issued] = Cur

\* the clock runs, every fetch is answered and events keep being processed:
\* weak fairness of the three actions, that of RouteFetched and of RouteEvent
\* written out with the state predicate their ENABLED amounts to
SpecRouteLive ==
    /\ SpecRoute
    /\ WF_vars(RouteClock)
    /\ ([]<>(fetching = {}) \/ []<><<RouteFetched>>_vars)
    /\ ([]<>RouteEventIdle \/ []<><<RouteEvent>>_vars)

-----------------------------------------------------------------------------
(* SpecStale: the Bestiary of uA is shown while its creatures are being    *)
(* fetched, and creatures of uA are saved.  The rows of a fetch are read   *)
(* at one moment and handled at a later one; last.data counts the saves    *)
(* the store has committed (written) and names the count the rows of the   *)
(* cache were read at (shown).                                             *)

MaxStaleCmds == 2        \* commands enqueued
MaxStaleFetches == 7     \* fetch tasks started, the four that lead to the first state included
NoVersion == 0 - 1       \* the cache holds no rows

SaveCreatureAction == Action("SaveCreature", "uA", "creature", NoId, NoId, 0, 0)
Versions(written, shown) == Call("versions", NoKey, TRUE, [written |-> written, shown |-> shown])

\* the step to configuration c, reached by one run of App::update, with the
\* counts of last.data
StaleStep(c, written, shown) ==
    /\ c.state.enq <= MaxStaleCmds
    /\ c.issued <= MaxStaleFetches
    /\ SetAll([c EXCEPT !.last = Versions(written,
                                          IF c.state.loaded_creatures_universe = NoUid
                                          THEN NoVersion ELSE shown)])

\* the editor of the Bestiary queues the SaveCreature of a creature of uA
\* (AppState::queue), and the run of App::update ends with post_event_tasks
OnSaveCreature ==
    /\ state.enq < MaxStaleCmds
    /\ \E c \in {Dispatched([Cur EXCEPT !.state = queue(state, SaveCreatureAction)],
                            UserMsg("Tick", NoUid, NoId, 0), {}, {})} :
          StaleStep(c, last.data.written, last.data.shown)
\* task_execute: upsert_creature commits, or fails
StaleExecute ==
    \E a \in executing, fails \in BOOLEAN :
        /\ executing' = executing \ {a}
        /\ inbox' = inbox \cup {Msg("ActionDone", NoUid, NoId, ~fails, "none", 0, <<>>, a.seq)}
        /\ last' = Versions(IF fails THEN last.data.written ELSE last.data.written + 1,
                            last.data.shown)
        /\ UNCHANGED <<state, db, store, fetching, now, issued, completed, begun>>
\* a core fetch task reads its rows and schedules its response
StaleRead ==
    \E f \in fetching, ok \in BOOLEAN :
        /\ fetching' = fetching \ {f}
        /\ inbox' = inbox \cup {Response(f, ok, <<last.data.written>>)}
        /\ UNCHANGED <<state, db, store, executing, now, issued, completed, begun, last>>
OnStaleActionDone ==
    \E m \in inbox :
        /\ m.type = "ActionDone"
        /\ \E c \in {Dispatched(Cur, m, {m}, {})} :
              StaleStep(c, last.data.written, last.data.shown)
\* the rows of a creatures response replace the cache when the response is
\* Ok and the route still shows its universe
OnStaleFetched ==
    \E m \in inbox :
        /\ m.type \in FetchResponseTypes
        /\ \E c \in {Dispatched(Cur, m, {m}, {})} :
              StaleStep(c, last.data.written,
                        IF /\ m.type = ResponseType("Creatures") /\ m.ok
                           /\ state.route = Route("Bestiary", m.uid)
                        THEN m.data[1] ELSE last.data.shown)

InitStale == IsCfg([Idle(BestiaryShown) EXCEPT !.last = Versions(0, NoVersion)])

NextStale ==
    \/ OnSaveCreature
    \/ StaleExecute
    \/ StaleRead
    \/ OnStaleActionDone
    \/ OnStaleFetched

SpecStale == InitStale /\ [][NextStale]_vars

-----------------------------------------------------------------------------
(* SpecTwice: a successful NovelsFetched or ForgeScenesFetched is handled  *)
(* on a drawn selection as App::update handles it, in step 4 and again in  *)
(* step 5; last.data keeps the response and what one handling leaves       *)

TwiceNovels == FallbackNovels \cup {<<Ent(2, 0, 1)>>}
TwiceScenes == FallbackLists \cup {<<Ent(3, 2, 1)>>, <<Ent(1, 1, 2), Ent(4, 1, 1)>>}
TwiceChapters == {1, 2}

\* what the claim compares: the novels, the trees, the active lists, the
\* selection and the in-progress set of The Forge
ForgeView(s) ==
    [novels |-> s.novels,
     chapters_by_novel_id |-> s.chapters_by_novel_id,
     scenes_by_chapter_id |-> s.scenes_by_chapter_id,
     active_novel_chapters |-> s.active_novel_chapters,
     active_chapter_scenes |-> s.active_chapter_scenes,
     selection |-> <<s.active_novel_id, s.active_chapter_id, s.active_scene_id>>,
     in_progress |-> s.forge_loading_in_progress]

\* steps 4 and 5 of App::update (ui_controller.rs:165-217)
HandledTwice(s, msg, t) ==
    messages_update(DirectFetchResults(Fresh(s), msg, t), msg, t).s
HandledOnce(s, msg, t) == DirectFetchResults(Fresh(s), msg, t)

TwiceCall(msg) ==
    /\ state' = HandledTwice(state, msg, now)
    /\ last' = Call(msg.type, KeyOf(msg), TRUE,
                    [rows |-> msg.data, once |-> ForgeView(HandledOnce(state, msg, now))])
    /\ UNCHANGED <<db, store, executing, fetching, inbox, now, issued, completed, begun>>

CallNovelsFetchedTwice ==
    /\ last = NoCall
    /\ \E novels \in TwiceNovels :
          TwiceCall(Response([key |-> KeyNovels, uid |-> "uA", tag |-> 1], TRUE, novels))
CallScenesFetchedTwice ==
    /\ last = NoCall
    /\ \E scenes \in TwiceScenes, chapter_id \in TwiceChapters :
          TwiceCall(Response([key |-> KeyScenes(chapter_id), uid |-> NoUid, tag |-> 1],
                             TRUE, scenes))

NextTwice ==
    \/ CallNovelsFetchedTwice
    \/ CallScenesFetchedTwice

SpecTwice == InitFallback /\ [][NextTwice]_vars

-----------------------------------------------------------------------------
(* SpecQueue: scenes and chapters of the outline are deleted, one deletion *)
(* confirmed while the command of another is still in flight; the Data     *)
(* Store answers every command and the runtime delivers every ActionDone   *)

NextQueue ==
    \/ DbExecute
    \/ OnDeleteScene
    \/ OnDeleteChapter
    \/ OnConfirmDeleteNoted
    \/ OnTrashActionDone

SpecQueue == InitTrash /\ [][NextQueue]_vars

\* an ActionDone awaits its run of App::update: ENABLED <<OnTrashActionDone>>_vars
ActionDoneWaiting == \E m \in inbox : m.type = "ActionDone"

\* the task of a command that executes ends, and the message of a task that
\* ended is delivered; nothing is assumed of the user
SpecQueueLive ==
    /\ SpecQueue
    /\ WF_vars(DbExecute)
    /\ ([]<>(~ActionDoneWaiting) \/ []<><<OnTrashActionDone>>_vars)

-----------------------------------------------------------------------------
(* Properties *)

\* C1 (Spec): at most one write command executes at any time, it is the one
\* db_inflight names, and the commands complete in the order they were queued.
C1_SingleWriterFifo ==
    /\ Cardinality(executing) <= 1
    /\ \A a \in executing : state.db_inflight = a
    /\ \A i \in DOMAIN completed : completed[i] = i

\* C2 (SpecForge): a run of App::update that starts a fetch task leaves no
\* write command in flight and none queued, the ForgeRequestLoad* runs included.
C2_NoFetchWhileWriting ==
    [][(IsDispatch /\ ~(fetching' \subseteq fetching)) => ~Writing(state')]_vars

\* C3 (Spec): no load key has two fetch tasks outstanding (running, or answered
\* and not yet handled), across invalidations too.
C3_OneFetchPerKey ==
    \A k \in LedgerKeys : Cardinality(Outstanding(fetching, inbox, k)) <= 1

\* C4 (SpecLedger): between two ends of a load key at most one begin succeeds,
\* whatever the throttle would allow.
C4_NoDoubleBegin ==
    \A k \in AllKeys : begun[k] <= 1

\* reached: load_chapters_if_needed refused while the key was in progress,
\* although both throttles of the chapters load had elapsed
C4_RefusedWhileInProgress ==
    /\ last = Call("load_chapters_if_needed", KeyChapters(1), FALSE, <<>>)
    /\ begun[KeyChapters(1)] = 1
    /\ KeyChapters(1) \in state.forge_loading_in_progress
    /\ Fetches(load_chapters_if_needed(
                  [state EXCEPT !.forge_loading_in_progress = @ \ {KeyChapters(1)}],
                  1, now).tasks) # {}

\* the run of App::update this step is handles a fetch response for a load key
HandlesResponse ==
    /\ IsDispatch
    /\ \/ \E m \in inbox \ inbox' : m.type \in FetchResponseTypes \ {"TrashFetched"}
       \/ \E f \in fetching \ fetching' : f.key \in CoreKeys

\* C5 (SpecForge): a run of App::update that handles a fetch response releases
\* the key of the response exactly once, and once no fetch is outstanding the
\* in-progress sets are empty.
C5_ReleasedOncePerResponse ==
    [][/\ HandlesResponse => state'.ends = 1
       /\ (\A k \in LedgerKeys : Outstanding(fetching', inbox', k) = {})
              => InProgress(state') = {}]_vars

\* C6 (SpecCore): a creatures response for a universe whose Bestiary the route
\* no longer shows leaves creatures and loaded_creatures_universe as they
\* were, and its key is released.
C6_StaleCreaturesDiscarded ==
    [][\A f \in fetching \ fetching' :
          (IsDispatch /\ f.key.kind = "Creatures"
                /\ state.route # Route("Bestiary", f.key.uid))
             => /\ state'.creatures = state.creatures
                /\ state'.loaded_creatures_universe = state.loaded_creatures_universe
                /\ f.key \notin state'.core_loading_in_progress]_vars

\* reached: the creatures of uA arrived, Ok, while the Bestiary of uB was shown
C6_StaleResponseHandled ==
    /\ last = Call("CreaturesFetched", KeyCreatures("uA"), TRUE, <<>>)
    /\ state.route = Route("Bestiary", "uB")
    /\ state.loaded_creatures_universe # "uA"
    /\ KeyCreatures("uA") \notin state.core_loading_in_progress

\* C7 (SpecCore): a scoped cache whose marker names scope X holds the rows
\* fetched for X.
C7_CacheMatchesMarker ==
    /\ state.loaded_creatures_universe # NoUid
          => state.creatures = DbCreatures(state.loaded_creatures_universe)
    /\ state.loaded_locations_universe # NoUid
          => state.locations = DbLocations(state.loaded_locations_universe)
    /\ state.loaded_timeline_universe # NoUid
          => state.timeline = DbTimeline(state.loaded_timeline_universe)
    /\ state.loaded_snapshots_universe # NoUid
          => state.snapshots = DbSnapshots(state.loaded_snapshots_universe)
    /\ state.pm_data # NoPmData => state.pm_data.rows = DbKanban(state.pm_data.id)

\* reached: the creatures cache moved from uA to uB, and the locations of uA
\* arrived after uB was shown
C7_CacheSwitchedScope ==
    /\ state.loaded_creatures_universe = "uB"
    /\ state.loaded_locations_universe = "uB"
    /\ "uA" \in DOMAIN state.core_creatures_loaded_for
    /\ "uA" \notin DOMAIN state.core_locations_loaded_for
    /\ last = Call("LocationsFetched", KeyLocations("uA"), TRUE, <<>>)

\* merged holds one entity per id of fetched and of local, the local one
\* where both have the id
IsLocalWinsUnion(merged, fetched, local) ==
    /\ Ids(merged) = Ids(fetched) \cup Ids(local)
    /\ Len(merged) = Cardinality(Ids(merged))
    /\ \A i \in DOMAIN merged :
          merged[i] = IF Contains(local, merged[i].id) THEN Find(local, merged[i].id)
                      ELSE Find(fetched, merged[i].id)

\* C8 (SpecMerge): the tree entry a chapters or scenes response leaves is the
\* union by id of the fetched list and the entry it found, one entity per id,
\* the local entity winning.
C8_MergeLocalWins ==
    [][/\ last'.type = "handle_forge_chapters_fetched"
            => IsLocalWinsUnion(Entry(state'.chapters_by_novel_id, 1), last'.data,
                                Entry(state.chapters_by_novel_id, 1))
       /\ last'.type = "handle_scenes_fetched"
            => IsLocalWinsUnion(Entry(state'.scenes_by_chapter_id, 1), last'.data,
                                Entry(state.scenes_by_chapter_id, 1))]_vars

\* reached: fetched {1: v1, 2: v1} met local {2: v2, 3: v1} and left
\* {1: v1, 2: v2, 3: v1}
C8_ExampleMerged ==
    /\ last = Call("handle_forge_chapters_fetched", KeyChapters(1), TRUE,
                   <<Ent(1, 1, 1), Ent(2, 1, 1)>>)
    /\ state.chapters_by_novel_id[1] = <<Ent(1, 1, 1), Ent(2, 1, 2), Ent(3, 1, 1)>>

\* C9 (SpecForge): a scenes response for the active chapter leaves the body of
\* the active scene in active_chapter_scenes as it was when the Data Store
\* does not hold that body yet.
C9_UnsavedEditKept ==
    [][\A m \in inbox \ inbox' :
          (/\ IsDispatch
           /\ m.type = "ForgeScenesFetched" /\ m.id = state.active_chapter_id
           /\ Contains(state.active_chapter_scenes, state.active_scene_id)
           /\ ~\E e \in store.scenes :
                   /\ e.id = state.active_scene_id
                   /\ e.v = Find(state.active_chapter_scenes, state.active_scene_id).v)
             => /\ Contains(state'.active_chapter_scenes, state.active_scene_id)
                /\ Find(state'.active_chapter_scenes, state.active_scene_id).v
                      = Find(state.active_chapter_scenes, state.active_scene_id).v]_vars

\* C10 (SpecFallback): ensure_forge_safe_fallback applied to its own result
\* changes nothing.
C10_FallbackIdempotent ==
    last.type = "ensure_forge_safe_fallback" => ensure_forge_safe_fallback(state) = state

\* reached: the fallback repaired a selection, down to a scene it took from
\* the tree
C10_SelectionRepaired ==
    /\ last.type = "ensure_forge_safe_fallback"
    /\ state.route = RouteForge
    /\ state.expanded_chapters # {}
    /\ state.active_scene_id # NoId
    /\ state.forge_debounce_task_id # NoId

\* C12 (SpecForge): a run of App::update that handles a failed chapters or
\* scenes response releases the key of the response and leaves the loaded-at
\* times of the chapters and scenes loads as they were.
C12_FailedFetchKeepsLoadedAt ==
    [][\A m \in inbox \ inbox' :
          (/\ IsDispatch
           /\ m.type \in {"ForgeChaptersFetched", "ForgeScenesFetched"}
           /\ ~m.ok)
             => /\ KeyOf(m) \notin state'.forge_loading_in_progress
                /\ state'.forge_chapters_loaded_for = state.forge_chapters_loaded_for
                /\ state'.forge_scenes_loaded_for = state.forge_scenes_loaded_for]_vars

\* the cache fields of the state: the rows, the scope markers, the loaded-at
\* times and the throttle stamps an invalidation resets
CachesOf(s) ==
    [universes |-> s.universes, boards_list |-> s.boards_list, pm_data |-> s.pm_data,
     creatures |-> s.creatures, locations |-> s.locations,
     timeline |-> s.timeline, snapshots |-> s.snapshots,
     markers |-> <<s.loaded_creatures_universe, s.loaded_locations_universe,
                   s.loaded_timeline_universe, s.loaded_snapshots_universe,
                   s.loaded_forge_universe>>,
     core_loaded_for |-> <<s.core_creatures_loaded_for, s.core_locations_loaded_for,
                           s.core_timeline_loaded_for, s.core_snapshots_loaded_for>>,
     novels |-> s.novels, chapters |-> s.active_novel_chapters,
     scenes |-> s.active_chapter_scenes,
     trees |-> <<s.chapters_by_novel_id, s.scenes_by_chapter_id>>,
     forge_loaded_for |-> <<s.forge_chapters_loaded_for, s.forge_scenes_loaded_for>>,
     forge_reloads |-> <<s.last_novels_reload, s.last_chapters_reload, s.last_scenes_reload>>,
     trash_loaded |-> s.trash_loaded, data_dirty |-> s.data_dirty]

\* every piece of the failure text e, the two fixed pieces of a
\* disabled-capability message apart, is in the message, in the order of e
Carries(message, e) ==
    LET Fixed == {"Capability '", "' is disabled in this project"}
        Kept(w) == w \notin Fixed
        InE(w) == w \in {e[i] : i \in DOMAIN e} /\ Kept(w)
    IN SelectSeq(message, InE) = SelectSeq(e, Kept)

\* this step is the run of App::update on an ActionDone
HandlesActionDone == \E m \in inbox \ inbox' : m.type = "ActionDone"

LegacyScope(s) ==
    [data_dirty |-> s.data_dirty, pm_data |-> s.pm_data,
     markers |-> <<s.loaded_creatures_universe, s.loaded_locations_universe,
                   s.loaded_timeline_universe, s.loaded_snapshots_universe>>,
     core_loaded_for |-> <<s.core_creatures_loaded_for, s.core_locations_loaded_for,
                           s.core_timeline_loaded_for, s.core_snapshots_loaded_for>>]

\* C14 (SpecDone): the run of App::update on the ActionDone(Ok) of a command
\* whose arm of handle_action_done has the trash list or the outline of The
\* Forge as its scope leaves the core caches the legacy global invalidation
\* resets as they were.
C14_SpecificHandlerOwnScope ==
    [][(/\ HandlesActionDone /\ last'.ok
        /\ \E a \in ForgeAndTrashCommands : state.db_inflight = [a EXCEPT !.seq = state.db_inflight.seq])
          => LegacyScope(state') = LegacyScope(state)]_vars

\* the commands dispatched for execution so far: executing, executed and
\* waiting for their ActionDone to be handled, or completed
DispatchedSeqs ==
    {a.seq : a \in executing}
        \cup {m.tag : m \in {x \in inbox : x.type = "ActionDone"}}
        \cup {completed[i] : i \in DOMAIN completed}

\* C16 (SpecDone): a command that starts executing was never dispatched
\* before, and the run of App::update on an ActionDone, failed or not,
\* enqueues nothing.
C16_DispatchedAtMostOnce ==
    [][/\ \A a \in executing' \ executing : a.seq \notin DispatchedSeqs
       /\ HandlesActionDone
             => /\ state'.enq = state.enq
                /\ {state'.db_queue[i].seq : i \in DOMAIN state'.db_queue}
                      \subseteq {state.db_queue[i].seq : i \in DOMAIN state.db_queue}]_vars

\* reached: command 1 failed and was not dispatched again; command 2, queued
\* behind it, executes
C16_FailedNotRetried ==
    /\ last.type = "ActionDone" /\ ~last.ok
    /\ completed = <<1>>
    /\ {a.seq : a \in executing} = {2}
    /\ state.db_queue = <<>>

\* this step is a call of execute
Executes == last'.type = "execute" /\ state'.enq = state.enq + 1

\* C15 (SpecStore): a command whose statements before the audit row succeed
\* reports Ok, whether the audit row could be written or not.
C15_AuditFailureNeverFails ==
    [][(Executes /\ ~last'.data.fails /\ DbApply(store, last'.data.cmd).possible)
          => last'.ok]_vars

\* the parent the trash entry e names is not in the store
ParentMissing(st, e) ==
    \/ e.target = "chapter" /\ ~Contains(st.novels, e.parent)
    \/ e.target = "scene" /\ ~\E c \in st.chapters : c.id = e.parent

\* C17 (SpecStore): RestoreFromTrash of an entry whose parent is not in the
\* store fails and leaves every table, the trash entries included, as it was.
C17_RestoreNeedsParent ==
    [][\A e \in store.trash :
          (/\ Executes
           /\ last'.data.cmd.type = "RestoreFromTrash" /\ last'.data.cmd.id = e.id
           /\ ParentMissing(store, e))
             => ~last'.ok /\ store' = store]_vars

\* reached: scene 1 went to the trash, then its chapter; the restore of the
\* scene was refused with no statement failing, and its entry is still there
C17_OrphanRestoreRefused ==
    /\ last.type = "execute" /\ ~last.ok
    /\ last.data.cmd.type = "RestoreFromTrash"
    /\ ~last.data.fails /\ last.data.audit_ok
    /\ \E e \in store.trash :
          /\ e.id = last.data.cmd.id /\ e.target = "scene" /\ e.target_id = 1
          /\ ParentMissing(store, e)
    /\ \A x \in store.scenes : x.id # 1

\* the selected scene is None or a scene of the scene collection
SceneSelectionValid(s) ==
    s.active_scene_id = NoId \/ Contains(s.active_chapter_scenes, s.active_scene_id)

C18_TrashRoundTrip ==
    [][/\ \A e \in store'.trash \ store.trash :
             (e.target = "scene" /\ \E x \in store.scenes : x.id = e.target_id)
                => e.payload \in store.scenes
       /\ \A e \in store.trash \ store'.trash :
             (e.target = "scene" /\ store'.scenes # store.scenes)
                => e.payload \in store'.scenes]_vars

PositionsOf(cards) == [i \in DOMAIN cards |-> cards[i].position]
IdsInOrder(cards) == [i \in DOMAIN cards |-> cards[i].id]
\* the gap between the hovered card and the card before it in its column
HoverGap(cards, hover_id) ==
    LET idx == Min({i \in DOMAIN cards : cards[i].id = hover_id})
    IN cards[idx].position - (IF idx > 1 THEN cards[idx - 1].position ELSE 0)

\* C19 (SpecKanban): a card dropped into another column onto a hovered card
\* whose gap to the card before it is at most 1 queues a MoveCard and, behind
\* it, a RebalanceColumn of the target column; a MoveCard leaves the other
\* cards of every column in their order, and a RebalanceColumn leaves the
\* cards of the column in their order and at positions 1000, 2000, 3000, ...
C19_SmallGapRebalances ==
    [][/\ (/\ state.pm_state # NoDrag /\ state.pm_state.active
           /\ state'.pm_state = NoDrag
           /\ state.hovered_column \notin {NoId, state.pm_state.original_col}
           /\ Contains(ColumnCards(store.cards, state.hovered_column), state.hovered_card)
           /\ HoverGap(ColumnCards(store.cards, state.hovered_column),
                       state.hovered_card) <= 1)
          => /\ Len(state'.db_queue) = Len(state.db_queue) + 2
             /\ SubSeq(state'.db_queue, 1, Len(state.db_queue)) = state.db_queue
             /\ state'.db_queue[Len(state.db_queue) + 1].type = "MoveCard"
             /\ state'.db_queue[Len(state.db_queue) + 1].id = state.pm_state.card_id
             /\ state'.db_queue[Len(state.db_queue) + 1].parent = state.hovered_column
             /\ state'.db_queue[Len(state.db_queue) + 2].type = "RebalanceColumn"
             /\ state'.db_queue[Len(state.db_queue) + 2].id = state.hovered_column
       /\ (/\ state.db_queue # <<>> /\ state'.db_queue = Tail(state.db_queue)
           /\ last'.ok /\ Head(state.db_queue).type = "MoveCard")
          => \A c \in Columns :
                IdsInOrder(SelectSeq(ColumnCards(store'.cards, c),
                                     LAMBDA x : x.id # Head(state.db_queue).id))
                  = IdsInOrder(SelectSeq(ColumnCards(store.cards, c),
                                         LAMBDA x : x.id # Head(state.db_queue).id))
       /\ (/\ state.db_queue # <<>> /\ state'.db_queue = Tail(state.db_queue)
           /\ last'.ok /\ Head(state.db_queue).type = "RebalanceColumn")
          => /\ IdsInOrder(ColumnCards(store'.cards, Head(state.db_queue).id))
                  = IdsInOrder(ColumnCards(store.cards, Head(state.db_queue).id))
             /\ PositionsOf(ColumnCards(store'.cards, Head(state.db_queue).id))
                  = [i \in 1..Len(ColumnCards(store.cards, Head(state.db_queue).id))
                        |-> i * 1000]]_vars
\* a card was dropped between the cards at 1000 and 1001 of column 2, and the
\* column was rebalanced
C19_ColumnRebalanced ==
    /\ last.type = "execute" /\ last.ok
    /\ last.data.cmd.type = "RebalanceColumn" /\ last.data.cmd.id = 2
    /\ PositionsOf(ColumnCards(last.data.before, 2)) = <<1000, 1001, 1002>>
    /\ IdsInOrder(ColumnCards(last.data.before, 2)) = <<2, 3, 1>>
    /\ ColumnCards(store.cards, 2) = <<Card(2, 2, 1000), Card(3, 2, 2000), Card(1, 2, 3000)>>

\* the commands enqueued and not yet handed to the store's task
Pending(s) == {s.db_queue[i] : i \in DOMAIN s.db_queue}
DebounceCompletes(msgs) == {m \in msgs : m.type = "DebounceComplete"}

\* C20 (SpecDebounce): every SceneBodyChanged schedules one DebounceComplete
\* with the next token and queues nothing; a DebounceComplete that carries
\* an earlier token than the current one queues nothing; the DebounceComplete
\* scheduled by the last edit queues exactly one command, the UpdateScene of
\* the edited scene; no other step queues a command.
C20_OnlyLastTokenSaves ==
    [][/\ state'.forge_debounce_task_id > state.forge_debounce_task_id
          => /\ state'.forge_debounce_task_id = state.forge_debounce_task_id + 1
             /\ DebounceCompletes(inbox' \cup inbox) \ DebounceCompletes(inbox)
                   \subseteq {m \in DebounceCompletes(inbox') :
                                /\ m.val = state'.forge_debounce_task_id
                                /\ m.tag = now + AUTOSAVE_DELAY_MS}
             /\ \E m \in DebounceCompletes(inbox') :
                   m.val = state'.forge_debounce_task_id /\ m.tag = now + AUTOSAVE_DELAY_MS
             /\ state'.enq = state.enq
       /\ \A m \in DebounceCompletes(inbox) \ DebounceCompletes(inbox') :
             /\ m.val # state.forge_debounce_task_id
                   => /\ state'.enq = state.enq
                      /\ state'.forge_debounce_task_id = state.forge_debounce_task_id
             /\ (/\ m.val = state.forge_debounce_task_id
                 /\ m.tag = state.forge_last_edit + AUTOSAVE_DELAY_MS)
                   => /\ state'.enq = state.enq + 1
                      /\ \E a \in executing' \cup Pending(state') :
                            /\ a.seq = state'.enq /\ a.type = "UpdateScene"
                            /\ a.id = state.active_scene_id /\ a.body = state.forge_content
                      /\ state'.forge_debounce_task_id = NoId
       /\ DebounceCompletes(inbox) \subseteq DebounceCompletes(inbox')
          => state'.enq = state.enq]_vars
\* three edits, each 400 ms after the one before; the three DebounceComplete
\* messages have been handled and one UpdateScene, of the last text, was queued
C20_BurstSavedOnce ==
    /\ now = 2 * TickMs + 2 * BurstStepMs + AUTOSAVE_DELAY_MS
    /\ state.forge_last_edit = 2 * TickMs + 2 * BurstStepMs
    /\ DebounceCompletes(inbox) = {}
    /\ state.forge_debounce_task_id = NoId
    /\ state.enq = 1
    /\ \E a \in executing : a.type = "UpdateScene" /\ a.id = 1 /\ a.body = 2 /\ a.seq = 1
    /\ state.forge_content = 2

\* C21 (SpecDebounce): the token a SceneBodyChanged issues is greater than the
\* token of every DebounceComplete scheduled before it, so that a
\* DebounceComplete of an earlier edit never carries the latest token.
C21_TokenMonotonic ==
    [][state'.forge_debounce_task_id \notin {NoId, state.forge_debounce_task_id}
          => \A m \in DebounceCompletes(inbox) : m.val < state'.forge_debounce_task_id]_vars

\* C22 (SpecToasts): at most MAX_TOASTS toasts are held; show_toast keeps the
\* new toast, as the last one, and the toasts it removes are the oldest: the
\* toasts kept are the last ones of the list it was called on.
C22_ToastsBounded ==
    [][/\ Len(last'.data.toasts) <= MAX_TOASTS
       /\ last'.data.toast_counter = last.data.toast_counter + 1 =>
             /\ last'.data.toasts # <<>>
             /\ last'.data.toasts[Len(last'.data.toasts)].id = last'.data.toast_counter
             /\ last'.data.toasts[Len(last'.data.toasts)].created_at = now
             /\ \A i \in DOMAIN last.data.toasts :
                   Contains(last'.data.toasts, last.data.toasts[i].id)
                      => \A j \in i..Len(last.data.toasts) :
                            \/ Contains(last'.data.toasts, last.data.toasts[j].id)
                            \/ (now - last.data.toasts[j].created_at) \div 1000
                                  >= last.data.toasts[j].ttl_secs
             /\ \A i \in 1..(Len(last'.data.toasts) - 1) :
                   \E j \in DOMAIN last.data.toasts :
                      last.data.toasts[j] = last'.data.toasts[i]]_vars
\* an eleventh toast was shown while ten were held, none of them expired: the
\* oldest one was removed
C22_OldestToastDropped ==
    /\ last.type = "show_toast"
    /\ Len(last.data.toasts) = MAX_TOASTS
    /\ last.data.toast_counter = MAX_TOASTS + 1
    /\ last.data.toasts[1].id = 2
    /\ \A i \in DOMAIN last.data.toasts : last.data.toasts[i].created_at = now

\* the chapters and the scenes the outline holds, in the active lists and in
\* the trees
KnownChapters(s) ==
    {s.active_novel_chapters[i] : i \in DOMAIN s.active_novel_chapters}
        \cup UNION {{s.chapters_by_novel_id[k][i] : i \in DOMAIN s.chapters_by_novel_id[k]} :
                      k \in DOMAIN s.chapters_by_novel_id}
KnownScenes(s) ==
    {s.active_chapter_scenes[i] : i \in DOMAIN s.active_chapter_scenes}
        \cup UNION {{s.scenes_by_chapter_id[k][i] : i \in DOMAIN s.scenes_by_chapter_id[k]} :
                      k \in DOMAIN s.scenes_by_chapter_id}

\* C23 (SpecSelect): a step that makes another novel the active one leaves
\* the active chapter None or a chapter of that novel, and the active scene
\* None or a scene of the active chapter; a step that makes another chapter
\* the active one leaves the active scene None or a scene of that chapter.
C23_DownstreamCleared ==
    [][/\ (state'.active_novel_id \notin {NoId, state.active_novel_id})
          => /\ \/ state'.active_chapter_id = NoId
                \/ \E c \in KnownChapters(state') :
                      c.id = state'.active_chapter_id /\ c.parent = state'.active_novel_id
             /\ \/ state'.active_scene_id = NoId
                \/ /\ state'.active_chapter_id # NoId
                   /\ \E x \in KnownScenes(state') :
                         x.id = state'.active_scene_id /\ x.parent = state'.active_chapter_id
       /\ (state'.active_chapter_id \notin {NoId, state.active_chapter_id})
          => \/ state'.active_scene_id = NoId
             \/ \E x \in KnownScenes(state') :
                   x.id = state'.active_scene_id /\ x.parent = state'.active_chapter_id]_vars

\* C24 (SpecSelect): the chapters of active_novel_chapters belong to the
\* active novel and the scenes of active_chapter_scenes to the active chapter.
C24_ActiveListsAreViews ==
    /\ \A i \in DOMAIN state.active_novel_chapters :
          state.active_novel_chapters[i].parent = state.active_novel_id
    /\ \A i \in DOMAIN state.active_chapter_scenes :
          state.active_chapter_scenes[i].parent = state.active_chapter_id

\* each selection pointer is None or the id of an entity of its list
SelectionValid(s) ==
    /\ s.active_novel_id = NoId \/ Contains(s.novels, s.active_novel_id)
    /\ s.active_chapter_id = NoId \/ Contains(s.active_novel_chapters, s.active_chapter_id)
    /\ s.active_scene_id = NoId \/ Contains(s.active_chapter_scenes, s.active_scene_id)
\* the step handles a novels, chapters or scenes fetch completion
ForgeFetchHandled ==
    \E m \in inbox \ inbox' :
        m.type \in {"NovelsFetched", "ForgeChaptersFetched", "ForgeScenesFetched"}
\* the step confirms the deletion of a novel, a chapter or a scene
DeleteConfirmed ==
    /\ state.pending_confirm.type \in {"DeleteNovel", "DeleteChapter", "DeleteScene"}
    /\ state'.pending_confirm = NoConfirm
\* the step queues the creation of a novel, a chapter or a scene
Created ==
    \E a \in executing' \cup Pending(state') :
        a.seq > state.enq /\ a.type \in {"CreateNovel", "CreateChapter", "CreateScene"}

\* C25 (SpecSelect): after a novels, chapters or scenes fetch completion is
\* handled, and after a novel, a chapter or a scene is created or its deletion
\* confirmed, each selection pointer is None or the id of an entity of its list.
C25_SelectionValid ==
    [][(ForgeFetchHandled \/ DeleteConfirmed \/ Created) => SelectionValid(state')]_vars

\* the step handles a chapters (scenes) fetch completion of a novel (chapter)
\* that is not the active one
StaleScopeFetched(m) ==
    /\ m \in inbox \ inbox'
    /\ \/ m.type = "ForgeChaptersFetched" /\ m.id # state.active_novel_id
       \/ m.type = "ForgeScenesFetched" /\ m.id # state.active_chapter_id
\* the gating key of a chapters or scenes fetch completion
FetchedKey(m) ==
    IF m.type = "ForgeChaptersFetched" THEN KeyChapters(m.id) ELSE KeyScenes(m.id)

\* C26 (SpecSelect): handling a chapters (scenes) fetch completion of a novel
\* (chapter) that is not the active one leaves the active lists, the selection
\* pointers and the editor buffer unchanged and releases the gating key.
C26_StaleFetchLeavesView ==
    [][\A m \in inbox :
          StaleScopeFetched(m)
             => /\ state'.active_novel_chapters = state.active_novel_chapters
                /\ state'.active_chapter_scenes = state.active_chapter_scenes
                /\ state'.active_novel_id = state.active_novel_id
                /\ state'.active_chapter_id = state.active_chapter_id
                /\ state'.active_scene_id = state.active_scene_id
                /\ state'.forge_content = state.forge_content
                /\ FetchedKey(m) \notin state'.forge_loading_in_progress]_vars

\* s2 is s but for the gating set and the fields named
OnlyLedgerOf(s, s2, stamp, loaded) ==
    \A f \in DOMAIN s : f \notin {"forge_loading_in_progress", stamp, loaded} => s2[f] = s[f]
\* the invalidation of key released its gating entry and no other
OnlyGatingOf(s, s2, key) ==
    /\ key \notin s2.forge_loading_in_progress
    /\ s2.forge_loading_in_progress \ {key} = s.forge_loading_in_progress \ {key}
\* map m2 is map m without the entry of id
OnlyEntryOf(m, m2, id) ==
    /\ DOMAIN m2 = DOMAIN m \ {id}
    /\ \A k \in DOMAIN m2 : m2[k] = m[k]

GlobalStamp(s, key) ==
    IF key = KeyUniversesList THEN s.last_universes_reload ELSE s.last_boards_reload
\* the step starts a fetch for key
FetchStarted(key) == \E f \in fetching' \ fetching : f.key = key

\* C29 (Spec): core_try_begin_global_load accepts exactly when the key is not
\* in progress and the throttle has elapsed since last_reload; a step starts a
\* fetch of the universes list or of the boards list only when the throttle
\* has elapsed since the last_reload of the key, it leaves the key in progress
\* and records the instant as last_reload, and last_reload never moves back:
\* two starts for the key are at least CORE_THROTTLE_MS apart.
C29_GlobalStartsThrottled ==
    [][\A key \in {KeyUniversesList, KeyBoardsList} :
          /\ LET b == core_try_begin_global_load(state, key, GlobalStamp(state, key),
                                                 CORE_THROTTLE_MS, now)
             IN /\ b.ok <=> /\ key \notin state.core_loading_in_progress
                            /\ now - GlobalStamp(state, key) >= CORE_THROTTLE_MS
                /\ b.ok => b.at = now /\ key \in b.s.core_loading_in_progress
          /\ FetchStarted(key)
                => /\ now' - GlobalStamp(state, key) >= CORE_THROTTLE_MS
                   /\ GlobalStamp(state', key) = now'
                   /\ key \in state'.core_loading_in_progress
                   /\ begun'[key] = 1
          /\ GlobalStamp(state', key) >= GlobalStamp(state, key)]_vars

\* the fetch of the universes list failed and is started again, two throttle
\* periods after construction
C29_UniversesRetried ==
    /\ last = Call("UniversesFetched", KeyUniversesList, FALSE, <<>>)
    /\ \E f \in fetching : f.key = KeyUniversesList
    /\ state.last_universes_reload = now
    /\ now >= 2 * CORE_THROTTLE_MS

\* the kinds of the scoped keys of the core ledger
ScopedKinds == {"Creatures", "Locations", "Timeline", "Snapshots", "PmBoard"}

\* C30 (SpecCore): the run of App::update that handles a failed response, or a
\* creatures response the route no longer shows, starts no fetch for the key
\* of the response.  The clock stands still in SpecCore: the fetch answered
\* was started 0 ms earlier, within the throttle window.
C30_NoRetryWithinWindow ==
    [][\A f \in fetching \ fetching' :
          (/\ IsDispatch /\ f.key.kind \in ScopedKinds
           /\ \/ ~last'.ok
              \/ f.key.kind = "Creatures" /\ state.route # Route("Bestiary", f.key.uid))
             => ~FetchStarted(f.key)]_vars

\* C31 (SpecRouteLive): once the route is the Bestiary of universe u, either
\* the route changes or eventually the creatures cache is marked for u and
\* holds the creatures fetched for u.
C31_RouteChangeLoads ==
    \A u \in Universes :
        (state.route = Route("Bestiary", u))
            ~> (\/ state.route # Route("Bestiary", u)
                \/ /\ state.loaded_creatures_universe = u
                   /\ state.creatures = DbCreatures(u))

\* the Bestiary of uB is loaded after that of uA was
C31_SecondScopeLoaded ==
    /\ state.route = Route("Bestiary", "uB")
    /\ state.loaded_creatures_universe = "uB"
    /\ state.creatures = DbCreatures("uB")
    /\ "uA" \in DOMAIN state.core_creatures_loaded_for

\* the position of the hovered card and of the card before it in its column
HoverPos(cards, hover_id) == Find(cards, hover_id).position
\* C32 (SpecKanban): a card dropped into another column onto a hovered card
\* whose gap to the card before it is more than 1 queues one command, the
\* MoveCard of the dragged card to the target column, at a position strictly
\* between that of the card before the hovered card (0 when there is none)
\* and that of the hovered card; no RebalanceColumn is queued.
C32_WideGapFits ==
    [][(/\ state.pm_state # NoDrag /\ state.pm_state.active
        /\ state'.pm_state = NoDrag
        /\ state.hovered_column \notin {NoId, state.pm_state.original_col}
        /\ Contains(ColumnCards(store.cards, state.hovered_column), state.hovered_card)
        /\ HoverGap(ColumnCards(store.cards, state.hovered_column),
                    state.hovered_card) > 1)
       => /\ Len(state'.db_queue) = Len(state.db_queue) + 1
          /\ SubSeq(state'.db_queue, 1, Len(state.db_queue)) = state.db_queue
          /\ state'.db_queue[Len(state'.db_queue)].type = "MoveCard"
          /\ state'.db_queue[Len(state'.db_queue)].id = state.pm_state.card_id
          /\ state'.db_queue[Len(state'.db_queue)].parent = state.hovered_column
          /\ state'.db_queue[Len(state'.db_queue)].body
                < HoverPos(store.cards, state.hovered_card)
          /\ state'.db_queue[Len(state'.db_queue)].body
                > HoverPos(store.cards, state.hovered_card)
                    - HoverGap(ColumnCards(store.cards, state.hovered_column),
                               state.hovered_card)]_vars
\* card 1 was dropped between the cards at 1000 and 1002 of column 2
C32_DroppedInGapOfTwo ==
    /\ state.pm_state = NoDrag
    /\ Len(state.db_queue) = 1
    /\ state.db_queue[1].type = "MoveCard" /\ state.db_queue[1].id = 1
    /\ state.db_queue[1].parent = 2 /\ state.db_queue[1].body = 1001
    /\ PositionsOf(ColumnCards(store.cards, 2)) = <<1000, 1002>>

\* C33 (Spec): an ActionDone that is handled while a command is in flight is
\* the ActionDone of that command, across CloseProject and a reopen too: the
\* slot it clears, and the invalidation it runs, are those of the command
\* that produced it.
C33_DoneAttributed ==
    [][\A m \in inbox \ inbox' :
          (IsDispatch /\ m.type = "ActionDone" /\ state.db_inflight # NoAction)
             => m.tag = state.db_inflight.seq]_vars

\* C34 (SpecStale): once no command and no fetch response is outstanding and
\* the Bestiary of uA is still shown, a creatures cache marked as loaded for
\* uA holds rows read after the last committed SaveCreature of uA.
C34_CacheReflectsWrite ==
    (/\ fetching = {} /\ inbox = {} /\ executing = {}
     /\ state.db_inflight = NoAction /\ state.db_queue = <<>>
     /\ state.route = Route("Bestiary", "uA")
     /\ state.loaded_creatures_universe = "uA")
       => last.data.shown = last.data.written

\* the ids of the entities of kind target whose deletion was confirmed: the
\* MoveToTrash is queued, in flight or executing, or the trash holds the entity
Trashed(target) ==
    {a.id : a \in {x \in Pending(state) \cup {state.db_inflight} \cup executing :
                     x.type = "MoveToTrash" /\ x.target = target}}
        \cup {e.target_id : e \in {x \in store.trash : x.target = target}}
\* the ids of the entries of a tree
TreeIds(tree) == UNION {Ids(tree[k]) : k \in DOMAIN tree}

\* C35 (SpecTrash): a chapter or scene whose deletion was confirmed, and
\* which was not restored from the trash, is in neither the tree nor the
\* active view, whatever fetch response is handled.
C35_DeletedStaysGone ==
    /\ Trashed("chapter") \cap (TreeIds(state.chapters_by_novel_id)
                                  \cup Ids(state.active_novel_chapters)) = {}
    /\ Trashed("scene") \cap (TreeIds(state.scenes_by_chapter_id)
                                \cup Ids(state.active_chapter_scenes)) = {}

\* the body list holds for the entity id, None read as the body given
BodyOr(list, id, body) == IF Contains(list, id) THEN Find(list, id).v ELSE body

\* C36 (SpecForge): when no command is queued, in flight or unanswered, a
\* successful scenes response for a chapter leaves, for every scene of that
\* chapter whose body in the Data Store was written by an UpdateScene (the
\* scenes are created with body 0), the body of the Data Store or the body
\* the active view held before the response, in the tree and in the active
\* view alike.
C36_SavedBodyKept ==
    [][\A m \in inbox \ inbox' :
          (/\ IsDispatch /\ m.type = "ForgeScenesFetched" /\ m.ok
           /\ executing = {} /\ state.db_inflight = NoAction /\ state.db_queue = <<>>
           /\ ~\E x \in inbox : x.type = "ActionDone")
             => \A e \in {x \in store.scenes : x.parent = m.id /\ x.v # 0} :
                   /\ BodyOr(Entry(state'.scenes_by_chapter_id, m.id), e.id, e.v)
                         \in {e.v, BodyOr(state.active_chapter_scenes, e.id, e.v)}
                   /\ BodyOr(state'.active_chapter_scenes, e.id, e.v)
                         \in {e.v, BodyOr(state.active_chapter_scenes, e.id, e.v)}]_vars

\* the client shows the entity of kind target with this id
Shown(s, target, id) ==
    CASE target = "scene" -> id \in ShownScenes(s)
      [] target = "chapter" -> id \in ShownChapters(s)
      [] target = "novel" -> Contains(s.novels, id)
      [] OTHER -> TRUE
\* the Data Store holds the entity of kind target with this id
Stored(st, target, id) ==
    CASE target = "scene" -> \E e \in st.scenes : e.id = id
      [] target = "chapter" -> \E e \in st.chapters : e.id = id
      [] target = "novel" -> Contains(st.novels, id)
      [] OTHER -> FALSE

\* C37 (SpecTrash): once the ActionDone of a failed MoveToTrash of a novel,
\* chapter or scene is handled and no fetch, message or command is
\* outstanding, the client shows the entity when the Data Store holds it.
C37_FailedDeleteShownAgain ==
    (/\ last.type = "ActionDone" /\ ~last.ok
     /\ last.data.inflight.type = "MoveToTrash"
     /\ fetching = {} /\ inbox = {} /\ executing = {}
     /\ state.db_inflight = NoAction /\ state.db_queue = <<>>
     /\ Stored(store, last.data.inflight.target, last.data.inflight.id))
       => Shown(state, last.data.inflight.target, last.data.inflight.id)

\* C38 (SpecTwice): handling a successful NovelsFetched or ForgeScenesFetched
\* in step 4 and again in step 5 of App::update leaves the novels, the chapter
\* and scene trees, the active lists, the selection and the in-progress set
\* as one handling leaves them.
C38_TwiceAsOnce ==
    last.type \in {"NovelsFetched", "ForgeScenesFetched"}
        => ForgeView(state) = last.data.once
\* reached: rows that hold scene 1 anew and a scene 4 the tree lacks were
\* merged twice into the tree of chapter 1, which held scenes 1 and 2
C38_MergedTwice ==
    /\ last.type = "ForgeScenesFetched" /\ last.key = KeyScenes(1)
    /\ last.data.rows = <<Ent(1, 1, 2), Ent(4, 1, 1)>>
    /\ state.route = RouteForge
    /\ state.scenes_by_chapter_id[1] = <<Ent(1, 1, 1), Ent(2, 1, 1), Ent(4, 1, 1)>>
    /\ state.active_chapter_scenes = state.scenes_by_chapter_id[1]

\* the store once the commands of q have executed, one after the other
RECURSIVE Settled(_, _)
Settled(st, q) ==
    IF q = <<>> THEN st ELSE Settled(execute(st, Head(q), FALSE, TRUE).st, Tail(q))
\* id a comes immediately before id b in the list
JustBefore(ids, a, b) == \E i \in 1..(Len(ids) - 1) : ids[i] = a /\ ids[i + 1] = b

\* C39 (SpecKanban): once the commands queued by the drop of a card into
\* another column onto a hovered card have executed, the dropped card comes
\* immediately before the hovered card in the target column.
C39_DroppedBeforeHovered ==
    [][(/\ state.pm_state # NoDrag /\ state.pm_state.active
        /\ state'.pm_state = NoDrag
        /\ state.hovered_column \notin {NoId, state.pm_state.original_col}
        /\ Contains(ColumnCards(store.cards, state.hovered_column), state.hovered_card))
       => JustBefore(IdsInOrder(ColumnCards(Settled(store, state'.db_queue).cards,
                                            state.hovered_column)),
                     state.pm_state.card_id, state.hovered_card)]_vars

\* the commands whose ActionDone was handled
Resolved == {completed[i] : i \in DOMAIN completed}

\* C40 (SpecQueueLive): every command in the write queue is eventually in
\* flight and eventually resolved, without any further user event; a busy
\* write queue eventually is empty with the inflight slot free.
C40_QueueDrains ==
    /\ \A n \in 1..MaxTrashCmds :
          (\E a \in Pending(state) : a.seq = n)
              ~> (state.db_inflight.seq = n /\ state.db_inflight.type # "none")
    /\ \A n \in 1..MaxTrashCmds :
          (\E a \in Pending(state) : a.seq = n) ~> (n \in Resolved)
    /\ Writing(state) ~> ~Writing(state)
\* reached: the ActionDone of command 1 was handled in the run of App::update
\* that took command 2, queued behind it, out of the queue
C40_NextDequeuedByActionDone ==
    /\ last.type = "ActionDone"
    /\ last.data.inflight.seq = 1
    /\ state.db_inflight.seq = 2 /\ state.db_inflight.type = "MoveToTrash"
    /\ \E a \in executing : a.seq = 2

====
